---- MODULE Spec2Model ----
(***************************************************************************)
(* A model of SFTPClient (src/src/sftp-client.ts): the proxy-tunnelling    *)
(* connect, the HTTP CONNECT header reader, the tunnel-socket slot and     *)
(* disconnect.  Byte strings are sequences of one-character strings.       *)
(***************************************************************************)
EXTENDS Integers, Sequences, FiniteSets, TLC

(***************************************************************************)
(* Bounds of the model.                                                    *)
(***************************************************************************)
\* Sockets one client instance may create before the model stops opening more.
MaxSockets == 2

\* Segments a current directory may have before the model stops descending.
MaxDepth == 3

\* Invocations of destroy() on one socket before the model stops destroying it.
MaxDestroys == 2

\* Events a socket emits after the header reader has settled.
MaxLate == 2

(***************************************************************************)
(* Bytes and strings.                                                      *)
(***************************************************************************)
CR == "\r"
LF == "\n"
SP == " "
TAB == "\t"

\* Buffer.from('\r\n\r\n')
headerEnd == <<CR, LF, CR, LF>>

Digits == {"0", "1", "2", "3", "4", "5", "6", "7", "8", "9"}

\* JavaScript's \s restricted to the bytes the model's responses use
\* (a line split at \r?\n holds no LF).
Whitespace == {SP, TAB, CR, LF}

UpperLetters ==
    <<"A", "B", "C", "D", "E", "F", "G", "H", "I", "J", "K", "L", "M",
      "N", "O", "P", "Q", "R", "S", "T", "U", "V", "W", "X", "Y", "Z">>

LowerLetters ==
    <<"a", "b", "c", "d", "e", "f", "g", "h", "i", "j", "k", "l", "m",
      "n", "o", "p", "q", "r", "s", "t", "u", "v", "w", "x", "y", "z">>

\* String.prototype.toLowerCase on one character.
LowerChar(ch) ==
    IF \E i \in 1..Len(UpperLetters) : UpperLetters[i] = ch
    THEN LowerLetters[CHOOSE i \in 1..Len(UpperLetters) : UpperLetters[i] = ch]
    ELSE ch

\* String.prototype.toLowerCase
ToLowerCase(s) == [i \in 1..Len(s) |-> LowerChar(s[i])]

\* buf.subarray(from, to) with 0-based from (inclusive) and to (exclusive).
Subarray(buf, from, to) == SubSeq(buf, from + 1, to)

\* Does pat occur in buf at the 0-based offset i?
OccursAt(buf, pat, i) ==
    /\ i + Len(pat) <= Len(buf)
    /\ \A j \in 1..Len(pat) : buf[i + j] = pat[j]

\* buf.indexOf(pat): the 0-based offset of the first occurrence, or -1.
IndexOf(buf, pat) ==
    LET hits == {i \in 0..Len(buf) : OccursAt(buf, pat, i)}
    IN  IF hits = {} THEN -1
        ELSE CHOOSE i \in hits : \A k \in hits : i <= k

\* headerStr.split(/\r?\n/)[0]: everything before the first LF, without the
\* CR that directly precedes that LF.
FirstLine(headerStr) ==
    LET n == IndexOf(headerStr, <<LF>>)
    IN  IF n = -1 THEN headerStr
        ELSE IF n >= 1 /\ headerStr[n] = CR THEN Subarray(headerStr, 0, n - 1)
        ELSE Subarray(headerStr, 0, n)

\* StatusLineOk with any version after the slash (/^HTTP\/\S*\s+200\s/i).
StatusLineOkAnyVersion(line) ==
    /\ Len(line) >= 5
    /\ ToLowerCase(Subarray(line, 0, 5)) = <<"h", "t", "t", "p", "/">>
    /\ \E v \in 5..Len(line), k \in 1..Len(line) :
          /\ v + k + 4 <= Len(line)
          /\ \A j \in 6..v : line[j] \notin Whitespace
          /\ \A j \in 1..k : line[v + j] \in Whitespace
          /\ Subarray(line, v + k, v + k + 3) = <<"2", "0", "0">>
          /\ line[v + k + 4] \in Whitespace
\* StatusLineOk without the \s that must follow the status code
\* (/^HTTP\/\d\.\d\s+200/i).
StatusLineOkNoBoundary(line) ==
    /\ Len(line) >= 8
    /\ ToLowerCase(Subarray(line, 0, 5)) = <<"h", "t", "t", "p", "/">>
    /\ line[6] \in Digits
    /\ line[7] = "."
    /\ line[8] \in Digits
    /\ \E k \in 1..Len(line) :
          /\ 8 + k + 3 <= Len(line)
          /\ \A j \in 1..k : line[8 + j] \in Whitespace
          /\ Subarray(line, 8 + k, 8 + k + 3) = <<"2", "0", "0">>

\* /^HTTP\/\d\.\d\s+200\s/i.test(line): k is the length of the \s+ run.
StatusLineOk(line) ==
    /\ Len(line) >= 8
    /\ ToLowerCase(Subarray(line, 0, 5)) = <<"h", "t", "t", "p", "/">>
    /\ line[6] \in Digits
    /\ line[7] = "."
    /\ line[8] \in Digits
    /\ \E k \in 1..Len(line) :
          /\ 8 + k + 4 <= Len(line)
          /\ \A j \in 1..k : line[8 + j] \in Whitespace
          /\ Subarray(line, 8 + k, 8 + k + 3) = <<"2", "0", "0">>
          /\ line[8 + k + 4] \in Whitespace

(***************************************************************************)
(* Inputs: proxy descriptors the caller may pass and byte streams the      *)
(* proxy may send in answer to the CONNECT request.                        *)
(***************************************************************************)
T_http == <<"h", "t", "t", "p">>
T_https == <<"h", "t", "t", "p", "s">>
T_socks4 == <<"s", "o", "c", "k", "s", "4">>
T_socks5 == <<"s", "o", "c", "k", "s", "5">>

\* Values of proxy.type the caller may pass: the four supported ones, two
\* letter-case variants, and strings that name no supported type.
ProxyTypes ==
    { T_http, T_https, T_socks4, T_socks5,
      <<"H", "T", "T", "P">>, <<"S", "o", "c", "k", "s", "5">>,
      <<"f", "t", "p">>, <<"s", "o", "c", "k", "s">> }

\* An optional string of the options: undefined, or a string (maybe empty).
Undefined == [defined |-> FALSE, val |-> <<>>]
Str(s) == [defined |-> TRUE, val |-> s]

\* JavaScript truthiness of an optional string: defined and not empty.
Truthy(v) == v.defined /\ v.val # <<>>

User == <<"u", "s", "e", "r">>
Pass == <<"p", "a", "s", "s">>

NoProxy ==
    [present |-> FALSE, enabled |-> FALSE, type |-> <<>>, secure |-> FALSE,
     username |-> Undefined, password |-> Undefined]

\* A proxy descriptor that carries no credentials.
Descriptor(enabled, type, secure) ==
    [present |-> TRUE, enabled |-> enabled, type |-> type, secure |-> secure,
     username |-> Undefined, password |-> Undefined]

\* Values the caller may give secureRejectUnauthorized, as JavaScript
\* writes them: booleans, null, a number and a non-empty string.
JsValues == {"true", "false", "null", "0", "'no'"}

\* Boolean(v)
ToBoolean(v) == v \notin {"false", "null", "0", "''", "NaN"}

\* A descriptor with secureRejectUnauthorized set to v.
WithRejectUnauthorized(proxy, v) ==
    [k \in DOMAIN proxy \cup {"secureRejectUnauthorized"} |->
        IF k = "secureRejectUnauthorized" THEN v ELSE proxy[k]]

\* options.proxy: omitted, a disabled descriptor, or an enabled one.
Proxies ==
    {NoProxy}
    \cup {Descriptor(FALSE, t, FALSE) : t \in {T_socks5, <<"f", "t", "p">>}}
    \cup {Descriptor(TRUE, t, s) : t \in ProxyTypes, s \in BOOLEAN}

\* The keys of the caller's options other than proxy.  debug stands for any
\* key outside the authKeys list of lines 226-235.
Keys ==
    {"host", "port", "username", "password", "privateKey", "passphrase",
     "readyTimeout", "debug", "sock"}

ExampleOrg == <<"e", "x", "a", "m", "p", "l", "e", ".", "o", "r", "g">>

\* The fields of the options most calls of the model pass.
BasicFields ==
    [k \in {"host", "port", "username", "password"} |->
        CASE k = "host" -> ExampleOrg
          [] k = "port" -> 2222
          [] k = "username" -> "alice"
          [] k = "password" -> "secret"]

\* The caller's connect options: the fields other than proxy, by key, and
\* the proxy descriptor (host and port of the proxy are the same in every
\* call of the model).
ConnectInputs == [fields : {BasicFields}, proxy : Proxies]

\* Options that vary in their fields: no port; key material and keys outside
\* the authKeys list; a sock of the caller's own.
FieldSets ==
    { BasicFields,
      [k \in {"host", "username"} |->
          IF k = "host" THEN ExampleOrg ELSE "alice"],
      [k \in {"host", "port", "username", "privateKey", "passphrase",
              "readyTimeout", "debug"} |->
          CASE k = "host" -> ExampleOrg
            [] k = "port" -> 22
            [] k = "username" -> "alice"
            [] k = "privateKey" -> "key"
            [] k = "passphrase" -> "phrase"
            [] k = "readyTimeout" -> "20000"
            [] k = "debug" -> "fn"],
      [k \in {"host", "port", "password", "sock", "debug"} |->
          CASE k = "host" -> ExampleOrg
            [] k = "port" -> 2222
            [] k = "password" -> "secret"
            [] k = "sock" -> "callerSock"
            [] k = "debug" -> "fn"] }

\* Proxy credentials: each of username and password undefined, empty or set.
Credentials ==
    [username : {Undefined, Str(<<>>), Str(User)},
     password : {Undefined, Str(<<>>), Str(Pass)}]

WithCredentials(proxy, cred) ==
    [proxy EXCEPT !.username = cred.username, !.password = cred.password]

\* Descriptors that vary in their credentials, one or more for each branch
\* of connect.
OptionProxies ==
    {NoProxy, Descriptor(FALSE, T_http, FALSE), Descriptor(TRUE, <<"f", "t", "p">>, FALSE),
     WithCredentials(Descriptor(TRUE, <<"f", "t", "p">>, FALSE),
                     [username |-> Str(User), password |-> Str(Pass)])}
    \cup {WithCredentials(Descriptor(TRUE, T_http, FALSE), cred) : cred \in Credentials}
    \cup {WithCredentials(Descriptor(TRUE, t, s),
                          [username |-> Str(User), password |-> Str(Pass)]) :
             t \in {T_https, T_socks4, T_socks5}, s \in BOOLEAN}

\* The options of the calls that vary: every descriptor with the usual
\* fields, and every set of fields on a path of each kind.
OptionInputs ==
    [fields : {BasicFields}, proxy : OptionProxies]
    \cup [fields : FieldSets,
          proxy : {NoProxy, Descriptor(FALSE, T_http, FALSE),
                   WithCredentials(Descriptor(TRUE, T_http, FALSE),
                                   [username |-> Str(User), password |-> Str(Pass)]),
                   Descriptor(TRUE, T_socks5, FALSE),
                   Descriptor(TRUE, T_socks4, TRUE)}]

ProxyHost == "proxy.example"
ProxyPort == "8080"

CRLF == <<CR, LF>>
H11 == <<"H", "T", "T", "P", "/", "1", ".", "1">>
OK200 == <<SP, "2", "0", "0", SP, "O", "K">>
NO407 == <<SP, "4", "0", "7", SP, "N", "o">>

\* Byte streams the proxy may send after the CONNECT request.
Responses ==
    { H11 \o OK200 \o CRLF \o CRLF,
      H11 \o OK200 \o CRLF \o CRLF \o <<"S", "S", "H">>,
      H11 \o OK200 \o CRLF \o <<"X", ":", "4", "0", "7">> \o CRLF \o CRLF,
      H11 \o NO407 \o CRLF \o CRLF,
      H11 \o NO407 \o CRLF \o H11 \o OK200 \o CRLF \o CRLF,
      H11 \o <<SP, "2", "0", "0">> \o CRLF \o CRLF,
      H11 \o <<SP, "2", "0", "0", SP>> \o CRLF \o CRLF,
      H11 \o <<SP, "2", "0", "0", "0", SP, "O", "K">> \o CRLF \o CRLF,
      <<"H", "T", "T", "P", "/", "2">> \o OK200 \o CRLF \o CRLF,
      <<"h", "t", "t", "p", "/", "1", ".", "0", TAB, SP, "2", "0", "0", TAB, "o", "k">>
          \o CRLF \o CRLF,
      <<"S", "S", "H">> \o CRLF \o CRLF,
      H11 \o OK200 \o CRLF,
      <<>> }

(***************************************************************************)
(* Error messages: sequences of fragments, embedded values spliced in.     *)
(***************************************************************************)
ConnectionFailed == "SFTPClient: Connection failed: "
DisconnectFailed == "SFTPClient: Disconnect failed: "

UnsupportedMsg(type) ==
    <<"SFTPClient: Unsupported proxy.type '">> \o type
        \o <<"'. Supported: socks5, socks4, http, https.">>

HttpConnectFailedMsg(proxyHost, proxyPort, firstLine) ==
    <<"SFTPClient: HTTP CONNECT failed via proxy ", proxyHost, ":", proxyPort, " -> ">>
        \o firstLine

ClosedMsg == <<"Proxy socket closed before CONNECT response">>
NoSocketTlsMsg == <<"SFTPClient: socks.createConnection did not return socket (TLS path)">>
NoSocketMsg == <<"SFTPClient: socks.createConnection did not return socket">>

\* Messages of errors raised by the collaborators (transport, SOCKS library,
\* SFTP session layer).
TransportErrMsg == <<"connect ECONNREFUSED">>
SocketErrMsg == <<"read ECONNRESET">>
SocksErrMsg == <<"Socks5 proxy rejected connection">>
SessionErrMsg == <<"All configured authentication methods failed">>
EndErrMsg == <<"end: No SFTP connection available">>
DestroyErrMsg == <<"destroy failed">>

(***************************************************************************)
(* Paths: a path is the sequence of its segments and of the slashes        *)
(* between them, so "/srv/ftp/" is <<"/", "srv", "/", "ftp", "/">>.        *)
(***************************************************************************)
Slash == "/"

\* path.startsWith('/')
StartsWithSlash(path) == Len(path) > 0 /\ path[1] = Slash

\* path.endsWith('/')
EndsWithSlash(path) == Len(path) > 0 /\ path[Len(path)] = Slash

\* normalizeDir: the path with a slash at its end.
normalizeDir(path) == IF EndsWithSlash(path) THEN path ELSE Append(path, Slash)

\* The segments of a path, slashes dropped.
Segments(path) == SelectSeq(path, LAMBDA t : t # Slash)

\* posix.normalize on the segments: "." is dropped; ".." removes the segment
\* before it, is dropped at the root of an absolute path, and is kept in a
\* relative path that has nothing left to remove.
RECURSIVE NormalizeSegments(_, _, _)
NormalizeSegments(segs, done, absolute) ==
    IF segs = <<>> THEN done
    ELSE LET seg == Head(segs)
             rest == Tail(segs)
         IN  IF seg = "." THEN NormalizeSegments(rest, done, absolute)
             ELSE IF seg = ".." THEN
                 IF done # <<>> /\ done[Len(done)] # ".."
                 THEN NormalizeSegments(rest, SubSeq(done, 1, Len(done) - 1), absolute)
                 ELSE IF absolute THEN NormalizeSegments(rest, done, absolute)
                 ELSE NormalizeSegments(rest, Append(done, ".."), absolute)
             ELSE NormalizeSegments(rest, Append(done, seg), absolute)

\* Segments joined by slashes.
RECURSIVE JoinSegments(_)
JoinSegments(segs) ==
    IF segs = <<>> THEN <<>>
    ELSE IF Len(segs) = 1 THEN segs
    ELSE <<Head(segs), Slash>> \o JoinSegments(Tail(segs))

\* posix.normalize
PosixNormalize(path) ==
    IF path = <<>> THEN <<".">>
    ELSE LET absolute == StartsWithSlash(path)
             body == JoinSegments(NormalizeSegments(Segments(path), <<>>, absolute))
         IN  IF body = <<>>
             THEN IF absolute THEN <<Slash>>
                  ELSE IF EndsWithSlash(path) THEN <<".", Slash>> ELSE <<".">>
             ELSE (IF absolute THEN <<Slash>> ELSE <<>>) \o body
                      \o (IF EndsWithSlash(path) THEN <<Slash>> ELSE <<>>)

\* posix.join of two paths: the non-empty ones joined by a slash, normalized.
PosixJoin(a, b) ==
    IF a = <<>> /\ b = <<>> THEN <<".">>
    ELSE IF a = <<>> THEN PosixNormalize(b)
    ELSE IF b = <<>> THEN PosixNormalize(a)
    ELSE PosixNormalize(a \o <<Slash>> \o b)

\* resolveRemotePath
resolveRemotePath(base, current, remotePath) ==
    IF StartsWithSlash(remotePath) THEN PosixJoin(base, Tail(remotePath))
    ELSE PosixJoin(current, remotePath)

\* The rootPath the client of the model is constructed with.
RootPath == <<Slash, "srv", Slash, "ftp">>

\* Root paths of the clients that change directory.
RootPaths == {RootPath, <<Slash, "srv", Slash, "ftp", Slash>>, <<Slash, "srv">>, <<Slash>>}

\* Arguments of cd.
RemoteDirs ==
    { <<"a">>, <<Slash, "a", Slash>>, <<"..">>, <<".", Slash, Slash, "b">>, <<Slash>> }

(***************************************************************************)
(* State.                                                                  *)
(***************************************************************************)
VARIABLES
    proxySocket,  \* this.proxySocket: 0 (undefined) or the id of a socket
    sockets,      \* the sockets created so far, by id: how often destroy()
                  \* was invoked on each, and whether it was ever stored in
                  \* the slot as the tunnel socket
    call,         \* per call in flight: its position, locals and outcome
    basePath,     \* this.basePath
    currentDir,   \* this.currentDir
    facade        \* the SecureFileTransferClient in front of the client, if
                  \* there is one: its protocol and its call in flight

vars == <<proxySocket, sockets, call, basePath, currentDir, facade>>

\* What connect and disconnect leave alone.
dirs == <<basePath, currentDir>>

\* The calls that may be in flight: one at a time.
SeqCalls == {1}

\* No call of the SOCKS library.
NoSocksOpts == [type |-> 0]

\* No call of the session layer's connect.  A payload handed to it records
\* whether it is the caller's own options object, its sock (0: none of the
\* client's sockets) and its other fields by key; the caller's own object
\* has the caller's proxy descriptor as well.
NoPayload == [direct |-> FALSE, sock |-> 0]

\* A call slot with no call in it.  A completed call keeps its outcome, its
\* log and what the proxy sent; the reader's buffer goes with the call.
\* cut and partial record how the proxy's bytes arrived: whether a chunk
\* ended inside the header terminator, and whether header bytes had been
\* accumulated when the socket closed or failed.
IdleCall ==
    [ pc |-> "idle", op |-> "none",
      opts |-> [fields |-> BasicFields, proxy |-> NoProxy],
      path |-> "none", sock |-> 0,
      sent |-> <<>>, wire |-> <<>>, response |-> <<>>, listening |-> FALSE,
      written |-> <<>>, socksOpts |-> NoSocksOpts, headerBuf |-> <<>>, payload |-> NoPayload, log |-> <<>>,
      cut |-> FALSE, partial |-> FALSE,
      result |-> "none", message |-> <<>>,
      pre |-> [slot |-> 0, alive |-> {}] ]

\* socket.destroy(): one more invocation recorded on socket id.
Destroy(socks, id) == [socks EXCEPT ![id].destroyCalls = @ + 1]

\* The sockets created and not yet destroyed.
Alive(socks) == {i \in DOMAIN socks : socks[i].destroyCalls = 0}

\* A socket just created by net.connect, tls.connect or the SOCKS library.
NewSocket == [destroyCalls |-> 0, tunnel |-> FALSE, late |-> 0]

\* TlsOptions with validation on unless the caller turns it off.
TlsOptionsStrict(proxy) ==
    [rejectUnauthorized |->
        IF "secureRejectUnauthorized" \in DOMAIN proxy
        THEN ToBoolean(proxy["secureRejectUnauthorized"]) ELSE TRUE]

\* The options of tls.connect that vary: rejectUnauthorized is
\* Boolean(proxy.secureRejectUnauthorized) when that is not undefined,
\* false otherwise.
TlsOptions(proxy) ==
    [rejectUnauthorized |->
        IF "secureRejectUnauthorized" \in DOMAIN proxy
        THEN ToBoolean(proxy["secureRejectUnauthorized"]) ELSE FALSE]

\* tls.connect(tlsOpts): the record of the call with the options it passed.
TlsConnect(cur, tlsOpts) == cur @@ ("tlsOpts" :> tlsOpts)

\* AssignSlot with the assignment left out.
AssignSlotSkipped(slot, socket) == slot

\* this.proxySocket = socket: the slot after the assignment.
AssignSlot(slot, socket) == socket

\* this.proxySocket = socket, as recorded on the socket.
Stored(socks, id) == [socks EXCEPT ![id].tunnel = TRUE]

\* The client constructed with rootPath.
Constructed(rootPath) ==
    /\ proxySocket = 0
    /\ sockets = <<>>
    /\ call = [c \in SeqCalls |-> IdleCall]
    /\ basePath = normalizeDir(rootPath)
    /\ currentDir = normalizeDir(rootPath)

\* A protocol client used on its own, without the facade.
NoFacade == [pc |-> "none"]

Init == Constructed(RootPath) /\ facade = NoFacade

(***************************************************************************)
(* connect: the dispatch.                                                  *)
(***************************************************************************)
\* ProxyPath that compares proxy.type as the caller wrote it.
ProxyPathCaseSensitive(opt) ==
    IF ~(opt.proxy.present /\ opt.proxy.enabled) THEN "direct"
    ELSE LET proxyType == opt.proxy.type
         IN  IF proxyType = T_http \/ proxyType = T_https THEN "http"
             ELSE IF proxyType # T_socks5 /\ proxyType # T_socks4 THEN "unsupported"
             ELSE IF opt.proxy.secure THEN "socksTls"
             ELSE "socks"
\* ProxyPath without the check of lines 256-261: every type that is not
\* http/https goes on to the SOCKS builder.
ProxyPathNoValidation(opt) ==
    IF ~(opt.proxy.present /\ opt.proxy.enabled) THEN "direct"
    ELSE LET proxyType == ToLowerCase(opt.proxy.type)
         IN  IF proxyType = T_http \/ proxyType = T_https THEN "http"
             ELSE IF opt.proxy.secure THEN "socksTls"
             ELSE "socks"

\* Which branch of connect the options select.
ProxyPath(opt) ==
    IF ~(opt.proxy.present /\ opt.proxy.enabled) THEN "direct"
    ELSE LET proxyType == ToLowerCase(opt.proxy.type)
         IN  IF proxyType = T_http \/ proxyType = T_https THEN "http"
             ELSE IF proxyType # T_socks5 /\ proxyType # T_socks4 THEN "unsupported"
             ELSE IF opt.proxy.secure THEN "socksTls"
             ELSE "socks"

\* HttpUsesTls that takes proxy.secure for a request of TLS as well.
HttpUsesTlsWhenSecure(opt) ==
    ToLowerCase(opt.proxy.type) = T_https \/ opt.proxy.secure
\* Is the socket to an HTTP-type proxy a TLS socket?
HttpUsesTls(opt) == ToLowerCase(opt.proxy.type) = T_https

\* SocksVersion with version 5 whatever the type.
SocksVersionFive(opt) == 5

\* type: proxyType === 'socks5' ? 5 : 4
SocksVersion(opt) == IF ToLowerCase(opt.proxy.type) = T_socks5 THEN 5 ELSE 4

DigitChars == <<"0", "1", "2", "3", "4", "5", "6", "7", "8", "9">>

\* A non-negative number as a template literal renders it.
RECURSIVE NumberToString(_)
NumberToString(n) ==
    IF n < 10 THEN <<DigitChars[n + 1]>>
    ELSE NumberToString(n \div 10) \o <<DigitChars[(n % 10) + 1]>>

\* String(opt.host)
destinationHost(opt) ==
    IF "host" \in DOMAIN opt.fields THEN opt.fields["host"]
    ELSE <<"u", "n", "d", "e", "f", "i", "n", "e", "d">>

\* opt.port ? Number(opt.port) : 22
destinationPort(opt) ==
    IF "port" \in DOMAIN opt.fields /\ opt.fields["port"] # 0
    THEN opt.fields["port"] ELSE 22

\* SocksOpts without existing_socket: the library opens its own connection.
SocksOptsOwnConnection(opt, existing) ==
    [existing_socket |-> 0, type |-> SocksVersion(opt),
     userId |-> opt.proxy.username, password |-> opt.proxy.password,
     host |-> destinationHost(opt), port |-> destinationPort(opt)]

\* socksOpts: the options of SocksClient.createConnection; existing is the
\* connected TLS socket to negotiate over, 0 when the library is to open
\* its own connection.
SocksOpts(opt, existing) ==
    [existing_socket |-> existing, type |-> SocksVersion(opt),
     userId |-> opt.proxy.username, password |-> opt.proxy.password,
     host |-> destinationHost(opt), port |-> destinationPort(opt)]

\* The keys copied first (lines 226-235).
authKeys ==
    {"username", "password", "privateKey", "passphrase", "agent",
     "readyTimeout", "keepaliveInterval", "keepaliveCountMax"}

\* BuildConnectOpts whose copy loop overwrites sock with the caller's own
\* (0: none of the client's sockets).
BuildConnectOptsCallerSock(opt, socket) ==
    LET copied == authKeys \cap DOMAIN opt.fields
        rest == {k \in DOMAIN opt.fields \ {"host", "port"} :
                    k \notin copied /\ k # "sock"}
    IN  [direct |-> FALSE,
         sock |-> IF "sock" \in DOMAIN opt.fields THEN 0 ELSE socket,
         fields |-> [k \in copied \cup rest |-> opt.fields[k]]]
\* BuildConnectOpts that copies every key of the caller's options but proxy.
BuildConnectOptsKeepsTarget(opt, socket) ==
    [direct |-> FALSE, sock |-> socket,
     fields |-> [k \in DOMAIN opt.fields \ {"sock"} |-> opt.fields[k]]]

\* connectOpts: sock is the tunnel socket; the authKeys the caller defined
\* are copied; then every other key of the caller's options except host,
\* port and proxy is copied unless connectOpts has it already (sock has).
BuildConnectOpts(opt, socket) ==
    LET copied == authKeys \cap DOMAIN opt.fields
        rest == {k \in DOMAIN opt.fields \ {"host", "port"} :
                    k \notin copied /\ k # "sock"}
    IN  [direct |-> FALSE, sock |-> socket,
         fields |-> [k \in copied \cup rest |-> opt.fields[k]]]

\* this.client.connect(options): the caller's options object itself.
PassThrough(opt) ==
    [direct |-> TRUE, sock |-> 0, fields |-> opt.fields, proxy |-> opt.proxy]

\* The log after destroy() was invoked on socket id in a cleanup and has
\* returned or raised.
DestroyInvoked(log, id, raised) ==
    IF raised THEN log \o <<<<"destroy", id>>, <<"destroy.raised", id>>>>
    ELSE Append(log, <<"destroy", id>>)

\* CleanupSlot without the assignment of line 422.
CleanupSlotKept(slot, raised) == slot

\* The catch block's cleanup of the slot: cleared after destroy() returned,
\* kept when there was nothing to destroy or destroy() raised.
CleanupSlot(slot, raised) == IF slot # 0 /\ ~raised THEN 0 ELSE slot

\* Wrapped with the error rethrown as it was caught.
WrappedRaw(prefix, cause) == cause

\* new Error(prefix + error.message)
Wrapped(prefix, cause) == <<prefix>> \o cause

\* Swallowed with no try/catch around the cleanup: an error raised by
\* destroy() becomes the call's outcome.
SwallowedNot(primary, raised) ==
    IF raised THEN [result |-> "rejected", message |-> DestroyErrMsg] ELSE primary

\* try { ...destroy()... } catch (_) {}: the outcome of a call whose cleanup
\* has or has not raised is the primary one.
Swallowed(primary, raised) == primary

(***************************************************************************)
(* SecureFileTransferClient: the facade in front of an SFTPClient          *)
(* (protocol sftp) or an FTPClient (protocols ftp and ftps).  The protocol *)
(* client's call in flight is in call either way.                          *)
(***************************************************************************)
Protocols == {"ftp", "ftps", "sftp"}

\* The call of the protocol client that a facade call awaits.
TheCall == CHOOSE c \in SeqCalls : TRUE

\* The facade constructed with a protocol: no call yet.  invoked says
\* whether the call in flight has invoked the protocol client.
FacadeIdle(protocol) ==
    [protocol |-> protocol, pc |-> "idle", op |-> "none", args |-> <<>>,
     invoked |-> FALSE, result |-> "none", message |-> <<>>, value |-> <<>>]

\* The prefix the facade puts before the message of a failed operation.
FacadePrefix(op) ==
    CASE op = "connect" -> "SecureFileTransferClient: Connect failed: "
      [] op = "list" -> "SecureFileTransferClient: List failed: "
      [] op = "cd" -> "SecureFileTransferClient: cd failed: "
      [] op = "pwd" -> "SecureFileTransferClient: pwd failed: "
      [] op = "downloadFile" -> "SecureFileTransferClient: Download failed: "
      [] op = "uploadFile" -> "SecureFileTransferClient: Upload failed: "
      [] op = "deleteFile" -> "SecureFileTransferClient: Delete failed: "
      [] op = "renameFile" -> "SecureFileTransferClient: Rename failed: "
      [] op = "disconnect" -> "SecureFileTransferClient: Disconnect failed: "

\* The value a completed call of the protocol client has returned.
Returned(done) == IF "value" \in DOMAIN done THEN done.value ELSE <<>>

\* SettledFacade with a failure of the protocol client turned into a
\* return without a value.
SettledFacadeSwallows(f, done) ==
    [f EXCEPT !.pc = "idle", !.result = "resolved", !.message = <<>>,
              !.value = Returned(done)]

\* The facade call f once the call of the protocol client it awaits is
\* done: it returns what the client returned, or its catch block wraps the
\* client's error.
SettledFacade(f, done) ==
    IF done.result = "rejected"
    THEN [f EXCEPT !.pc = "idle", !.result = "rejected",
                   !.message = Wrapped(FacadePrefix(f.op), done.message)]
    ELSE [f EXCEPT !.pc = "idle", !.result = "resolved", !.value = Returned(done)]

\* await this.client.<op>(...) in the facade: a step of the protocol client
\* leaves the facade alone unless the facade awaits the client's call; then
\* the facade goes on as soon as that call is done.
Awaited ==
    facade' =
        IF facade.pc # "awaitClient" THEN facade
        ELSE IF call'[TheCall].pc # "idle" THEN [facade EXCEPT !.invoked = TRUE]
        ELSE SettledFacade([facade EXCEPT !.invoked = TRUE], call'[TheCall])

\* The catch block of connect applied to the call record cur, with the
\* sockets as they are when the error is thrown.
Reject(c, cur, cause, socks, raised) ==
    /\ proxySocket # 0 => socks[proxySocket].destroyCalls < MaxDestroys
    /\ sockets' = IF proxySocket # 0 THEN Destroy(socks, proxySocket) ELSE socks
    /\ proxySocket' = CleanupSlot(proxySocket, raised)
    /\ call' = [call EXCEPT ![c] =
                  [cur EXCEPT !.pc = "idle",
                              !.wire = <<>>, !.response = <<>>,
                              !.result = "rejected",
                              !.message =
                                  Swallowed([result |-> "rejected",
                                             message |-> Wrapped(ConnectionFailed, cause)],
                                            proxySocket # 0 /\ raised).message,
                              !.log = IF proxySocket # 0
                                      THEN DestroyInvoked(cur.log, proxySocket, raised)
                                      ELSE cur.log]]
    /\ UNCHANGED dirs
    /\ Awaited

\* The call record of a connect that starts now.
Started(opt) ==
    [IdleCall EXCEPT !.op = "connect", !.opts = opt, !.path = ProxyPath(opt),
                     !.pre = [slot |-> proxySocket, alive |-> Alive(sockets)]]

NoCallInFlight == \A d \in DOMAIN call : call[d].pc = "idle"

\* connect without a proxy (or with proxy.enabled false), whatever other
\* call is in flight: this.client.connect(options).
BeginDirect(c, opt) ==
    /\ call[c].pc = "idle"
    /\ ProxyPath(opt) = "direct"
    /\ call' = [call EXCEPT ![c] =
                  [Started(opt) EXCEPT !.pc = "awaitSession",
                                       !.payload = PassThrough(opt),
                                       !.log = <<<<"client.connect", 0>>>>]]
    /\ UNCHANGED <<proxySocket, sockets, dirs>>
    /\ Awaited

\* connect without a proxy, called when no call is in flight.
ConnectDirect(c, opt) == NoCallInFlight /\ BeginDirect(c, opt)

\* connect with an unsupported proxy.type: the throw and the catch block.
ConnectUnsupported(c, opt, raised) ==
    /\ NoCallInFlight
    /\ ProxyPath(opt) = "unsupported"
    /\ Reject(c, Started(opt), UnsupportedMsg(opt.proxy.type), sockets, raised)

\* connect through an http/https proxy, up to the wait for connect/secureConnect.
ConnectHttp(c, opt) ==
    /\ NoCallInFlight
    /\ ProxyPath(opt) = "http"
    /\ Len(sockets) < MaxSockets
    /\ LET id == Len(sockets) + 1
           open == IF HttpUsesTls(opt) THEN "tls.connect" ELSE "net.connect"
           opened == [Started(opt) EXCEPT !.pc = "awaitTransport", !.sock = id,
                                          !.log = <<<<open, id>>>>]
       IN  /\ sockets' = Append(sockets, NewSocket)
           /\ call' = [call EXCEPT ![c] =
                         IF HttpUsesTls(opt)
                         THEN TlsConnect(opened, TlsOptions(opt.proxy))
                         ELSE opened]
    /\ UNCHANGED <<proxySocket, dirs>>
    /\ Awaited

\* connect through a TLS-wrapped SOCKS proxy, up to the wait for secureConnect.
ConnectSocksTls(c, opt) ==
    /\ NoCallInFlight
    /\ ProxyPath(opt) = "socksTls"
    /\ Len(sockets) < MaxSockets
    /\ LET id == Len(sockets) + 1
       IN  /\ sockets' = Append(sockets, NewSocket)
           /\ call' = [call EXCEPT ![c] =
                         TlsConnect([Started(opt) EXCEPT !.pc = "awaitTransport",
                                                         !.sock = id,
                                                         !.log = <<<<"tls.connect", id>>>>],
                                    TlsOptions(opt.proxy))]
    /\ UNCHANGED <<proxySocket, dirs>>
    /\ Awaited

\* connect through a plain SOCKS proxy, whatever other call is in flight,
\* up to the wait for the SOCKS library.
BeginSocks(c, opt) ==
    /\ call[c].pc = "idle"
    /\ ProxyPath(opt) = "socks"
    /\ Len(sockets) < MaxSockets
    /\ call' = [call EXCEPT ![c] =
                  [Started(opt) EXCEPT !.pc = "awaitSocks",
                                       !.socksOpts = SocksOpts(opt, 0),
                                       !.log = <<<<"socks.createConnection", 0>>>>]]
    /\ UNCHANGED <<proxySocket, sockets, dirs>>
    /\ Awaited

\* connect through a plain SOCKS proxy, called when no call is in flight.
ConnectSocks(c, opt) == NoCallInFlight /\ BeginSocks(c, opt)

(***************************************************************************)
(* connect through an http/https proxy: the CONNECT request, the header    *)
(* reader and the status check.                                            *)
(***************************************************************************)
\* The printable ASCII characters in code order, from the space (code 32);
\* the double quote, the backslash and the backtick are spelled out.
Ascii ==
    <<" ", "!", "quote", "#", "$", "%", "&", "'", "(", ")", "*", "+", ",", "-", ".", "/",
      "0", "1", "2", "3", "4", "5", "6", "7", "8", "9", ":", ";", "<", "=", ">", "?",
      "@", "A", "B", "C", "D", "E", "F", "G", "H", "I", "J", "K", "L", "M", "N", "O",
      "P", "Q", "R", "S", "T", "U", "V", "W", "X", "Y", "Z", "[", "backslash", "]", "^", "_",
      "backtick", "a", "b", "c", "d", "e", "f", "g", "h", "i", "j", "k", "l", "m", "n", "o",
      "p", "q", "r", "s", "t", "u", "v", "w", "x", "y", "z", "{", "|", "}", "~">>

\* Buffer.from(str): the bytes of a string of printable ASCII characters.
BufferFrom(str) ==
    [i \in 1..Len(str) |-> 31 + CHOOSE n \in 1..Len(Ascii) : Ascii[n] = str[i]]

Base64Alphabet ==
    <<"A", "B", "C", "D", "E", "F", "G", "H", "I", "J", "K", "L", "M", "N", "O", "P",
      "Q", "R", "S", "T", "U", "V", "W", "X", "Y", "Z", "a", "b", "c", "d", "e", "f",
      "g", "h", "i", "j", "k", "l", "m", "n", "o", "p", "q", "r", "s", "t", "u", "v",
      "w", "x", "y", "z", "0", "1", "2", "3", "4", "5", "6", "7", "8", "9", "+", "/">>

Base64Char(sextet) == Base64Alphabet[sextet + 1]

\* buf.toString('base64'): three bytes to four characters, the last group
\* padded with '='.
RECURSIVE ToBase64(_)
ToBase64(buf) ==
    IF Len(buf) = 0 THEN <<>>
    ELSE IF Len(buf) = 1 THEN
        <<Base64Char(buf[1] \div 4), Base64Char((buf[1] % 4) * 16), "=", "=">>
    ELSE IF Len(buf) = 2 THEN
        <<Base64Char(buf[1] \div 4),
          Base64Char((buf[1] % 4) * 16 + buf[2] \div 16),
          Base64Char((buf[2] % 16) * 4), "=">>
    ELSE
        <<Base64Char(buf[1] \div 4),
          Base64Char((buf[1] % 4) * 16 + buf[2] \div 16),
          Base64Char((buf[2] % 16) * 4 + buf[3] \div 64),
          Base64Char(buf[3] % 64)>>
            \o ToBase64(SubSeq(buf, 4, Len(buf)))

\* authHeader with the header written whatever the credentials are.
authHeaderAlways(proxy) ==
    <<"Proxy-Authorization: Basic ">>
        \o ToBase64(BufferFrom(proxy.username.val \o <<":">> \o proxy.password.val))

\* authHeader: the Basic credentials when username and password are both
\* truthy, the empty string otherwise.
authHeader(proxy) ==
    IF Truthy(proxy.username) /\ Truthy(proxy.password)
    THEN <<"Proxy-Authorization: Basic ">>
             \o ToBase64(BufferFrom(proxy.username.val \o <<":">> \o proxy.password.val))
    ELSE <<>>

\* connectReq: the text written to the proxy, fixed text in fragments and
\* the embedded values character by character.
connectReq(opt) ==
    LET target == destinationHost(opt) \o <<":">> \o NumberToString(destinationPort(opt))
    IN  <<"CONNECT ">> \o target \o <<" HTTP/1.1", CR, LF>>
        \o <<"Host: ">> \o target \o <<CR, LF>>
        \o (IF authHeader(opt.proxy) # <<>> THEN authHeader(opt.proxy) \o <<CR, LF>> ELSE <<>>)
        \o <<"Connection: keep-alive", CR, LF>>
        \o <<CR, LF>>

\* TransportSignal that waits for connect on either kind of socket.
TransportSignalConnect(opt) == "connect"

\* The event connect waits for before it writes: secureConnect on a TLS
\* socket, connect on a plain one.
TransportSignal(opt) == IF HttpUsesTls(opt) THEN "secureConnect" ELSE "connect"

\* The transport to the proxy signals connect (http) or secureConnect (https):
\* the CONNECT request is written and the reader's listeners are attached.
\* resp is what the proxy will send in answer.
HttpTransportReady(c, resp) ==
    /\ call[c].pc = "awaitTransport"
    /\ call[c].path = "http"
    /\ LET ev == TransportSignal(call[c].opts)
       IN  call' = [call EXCEPT ![c] =
                      [@ EXCEPT !.pc = "readHeaders", !.listening = TRUE,
                                !.sent = resp, !.wire = resp,
                                !.written = @ \o <<connectReq(call[c].opts)>>,
                                !.log = @ \o <<<<ev, call[c].sock>>,
                                               <<"write", call[c].sock>>>>]]
    /\ UNCHANGED <<proxySocket, sockets, dirs>>
    /\ Awaited

\* The transport to the proxy fails before connect/secureConnect: once() rejects.
TransportError(c, raised) ==
    /\ call[c].pc = "awaitTransport"
    /\ Reject(c, [call[c] EXCEPT !.log = Append(@, <<"once.rejected", call[c].sock>>)],
              TransportErrMsg, sockets, raised)

\* onData looking for the terminator in the new chunk only.
onDataChunkOnly(response, chunk) ==
    LET buf == response \o chunk
        idx == IndexOf(chunk, headerEnd)
    IN  IF idx # -1
        THEN [response |-> buf, settled |-> "resolve",
              value |-> Subarray(buf, 0, Len(response) + idx + 4)]
        ELSE [response |-> buf, settled |-> "pending", value |-> <<>>]

\* onData that goes on reading whatever the buffer holds.
onDataKeepsReading(response, chunk) ==
    [response |-> response \o chunk, settled |-> "pending", value |-> <<>>]

\* onData: the chunk is appended; the reader resolves with the bytes up to
\* and including the first terminator of the accumulated buffer.
onData(response, chunk) ==
    LET buf == response \o chunk
        idx == IndexOf(buf, headerEnd)
    IN  IF idx # -1
        THEN [response |-> buf, settled |-> "resolve", value |-> Subarray(buf, 0, idx + 4)]
        ELSE [response |-> buf, settled |-> "pending", value |-> <<>>]

\* onError: the reader rejects with the socket's error.
onError(response, err) ==
    [response |-> response, settled |-> "reject", value |-> err]

\* onClose handing back what was accumulated, if anything was.
onCloseResolvesPartial(response) ==
    IF response # <<>>
    THEN [response |-> response, settled |-> "resolve", value |-> response]
    ELSE [response |-> response, settled |-> "reject", value |-> ClosedMsg]

\* onClose: the reader rejects.
onClose(response) ==
    [response |-> response, settled |-> "reject", value |-> ClosedMsg]

\* StatusError with the proxy's user name in front of the proxy's host.
StatusErrorWithUser(opt, firstLine) ==
    <<"SFTPClient: HTTP CONNECT failed via proxy ">> \o opt.proxy.username.val
        \o <<"@", ProxyHost, ":", ProxyPort, " -> ">> \o firstLine

\* The error thrown when the status line is no 200: proxyHost and proxyPort
\* are String(proxy.host) and Number(proxy.port) of the descriptor, and
\* nothing else of it is in the message.
StatusError(opt, firstLine) == HttpConnectFailedMsg(ProxyHost, ProxyPort, firstLine)

\* connect after readHeaders resolved with headerBuf: the status check, then
\* either destroy and throw, or the slot is written and the session layer's
\* connect is invoked.
AfterReadHeaders(c, cur, headerBuf, raised) ==
    LET firstLine == FirstLine(headerBuf)
    IN  IF ~StatusLineOk(firstLine)
        THEN Reject(c, [cur EXCEPT !.log = Append(@, <<"destroy", cur.sock>>)],
                    StatusError(cur.opts, firstLine),
                    Destroy(sockets, cur.sock), raised)
        ELSE /\ proxySocket' = AssignSlot(proxySocket, cur.sock)
             /\ call' = [call EXCEPT ![c] =
                           [cur EXCEPT !.pc = "awaitSession",
                                       !.payload = BuildConnectOpts(cur.opts, cur.sock),
                                       !.log = @ \o <<<<"slot", cur.sock>>,
                                                      <<"client.connect", cur.sock>>>>]]
             /\ sockets' = Stored(sockets, cur.sock)
             /\ UNCHANGED dirs
             /\ Awaited

\* cleanup that leaves the three listeners on the socket.
cleanupKeepsListeners(cur) == cur

\* cleanup(): the reader's data, error and close listeners are removed.
cleanup(cur) == [cur EXCEPT !.listening = FALSE]

\* What connect does once a listener of the reader has run with result s.
Settle(c, cur, s, raised) ==
    CASE s.settled = "pending" ->
            /\ call' = [call EXCEPT ![c] = [cur EXCEPT !.response = s.response]]
            /\ UNCHANGED <<proxySocket, sockets, dirs>>
            /\ Awaited
      [] s.settled = "reject" ->
            Reject(c, cleanup([cur EXCEPT !.response = s.response]), s.value,
                   sockets, raised)
      [] s.settled = "resolve" ->
            AfterReadHeaders(c, cleanup([cur EXCEPT !.response = s.response,
                                                    !.headerBuf = s.value,
                                                    !.log = Append(@, <<"headers", cur.sock>>)]),
                             s.value, raised)

\* A data event: the proxy's next k bytes arrive as one chunk, for any k.
ProxyData(c, raised) ==
    /\ call[c].pc = "readHeaders"
    /\ call[c].listening
    /\ \E k \in 1..Len(call[c].wire) :
          LET chunk == SubSeq(call[c].wire, 1, k)
              rest == SubSeq(call[c].wire, k + 1, Len(call[c].wire))
              at == Len(call[c].sent) - Len(rest)
              term == IndexOf(call[c].sent, headerEnd)
              inside == term # -1 /\ term < at /\ at < term + 4
          IN  Settle(c, [call[c] EXCEPT !.wire = rest, !.cut = @ \/ inside],
                     onData(call[c].response, chunk), raised)

\* An error event on the socket while the reader listens.
ProxyError(c, raised) ==
    /\ call[c].pc = "readHeaders"
    /\ call[c].listening
    /\ Settle(c, [call[c] EXCEPT !.log = Append(@, <<"error", call[c].sock>>),
                                 !.partial = call[c].response # <<>>],
              onError(call[c].response, SocketErrMsg), raised)

\* A close event on the socket while the reader listens.
ProxyClose(c, raised) ==
    /\ call[c].pc = "readHeaders"
    /\ call[c].listening
    /\ Settle(c, [call[c] EXCEPT !.log = Append(@, <<"close", call[c].sock>>),
                                 !.partial = call[c].response # <<>>],
              onClose(call[c].response), raised)

(***************************************************************************)
(* connect through a SOCKS proxy.                                          *)
(***************************************************************************)
\* secureConnect on the TLS socket to the proxy: the SOCKS library is asked
\* to negotiate over it (existing_socket).
SocksTlsTransportReady(c) ==
    /\ call[c].pc = "awaitTransport"
    /\ call[c].path = "socksTls"
    /\ call' = [call EXCEPT ![c] =
                  [@ EXCEPT !.pc = "awaitSocks",
                            !.socksOpts = SocksOpts(call[c].opts, call[c].sock),
                            !.log = @ \o <<<<"secureConnect", call[c].sock>>,
                                           <<"socks.createConnection", call[c].sock>>>>]]
    /\ UNCHANGED <<proxySocket, sockets, dirs>>
    /\ Awaited

\* SocksClient.createConnection resolves with a socket: the existing TLS
\* socket on the TLS-wrapped path, a socket the library opened otherwise.
\* The slot is written and the session layer's connect is invoked.
SocksConnected(c) ==
    /\ call[c].pc = "awaitSocks"
    /\ LET fresh == call[c].path = "socks"
           socket == IF fresh THEN Len(sockets) + 1 ELSE call[c].sock
       IN  /\ sockets' = Stored(IF fresh THEN Append(sockets, NewSocket) ELSE sockets,
                                socket)
           /\ proxySocket' = AssignSlot(proxySocket, socket)
           /\ call' = [call EXCEPT ![c] =
                         [@ EXCEPT !.pc = "awaitSession", !.sock = socket,
                                   !.payload = BuildConnectOpts(call[c].opts, socket),
                                   !.log = @ \o <<<<"socks.socket", socket>>,
                                                  <<"slot", socket>>,
                                                  <<"client.connect", socket>>>>]]
    /\ UNCHANGED dirs
    /\ Awaited

\* SocksClient.createConnection resolves without a socket.
SocksNoSocket(c, raised) ==
    /\ call[c].pc = "awaitSocks"
    /\ Reject(c, [call[c] EXCEPT !.log = Append(@, <<"socks.nosocket", 0>>)],
              IF call[c].path = "socksTls" THEN NoSocketTlsMsg ELSE NoSocketMsg,
              sockets, raised)

\* SocksClient.createConnection rejects.
SocksFailed(c, raised) ==
    /\ call[c].pc = "awaitSocks"
    /\ Reject(c, [call[c] EXCEPT !.log = Append(@, <<"socks.rejected", 0>>)],
              SocksErrMsg, sockets, raised)

(***************************************************************************)
(* The session layer's connect, and disconnect.                            *)
(***************************************************************************)
\* this.client.connect resolves: connect resolves.
SessionConnected(c) ==
    /\ call[c].pc = "awaitSession"
    /\ call' = [call EXCEPT ![c] = [@ EXCEPT !.pc = "idle", !.result = "resolved",
                                             !.wire = <<>>, !.response = <<>>]]
    /\ UNCHANGED <<proxySocket, sockets, dirs>>
    /\ Awaited

\* this.client.connect rejects: the catch block.
SessionFailed(c, raised) ==
    /\ call[c].pc = "awaitSession"
    /\ Reject(c, [call[c] EXCEPT !.log = Append(@, <<"session.rejected", 0>>)],
              SessionErrMsg, sockets, raised)

\* What came before a disconnect that follows the call recorded in prev:
\* nothing but disconnects, a connect that resolved, a disconnect right
\* after a connect that resolved, or something else.
Preceding(prev) ==
    CASE prev.op = "none" -> "nothing"
      [] prev.op = "connect" /\ prev.result = "resolved" -> "connect"
      [] prev.op = "disconnect" /\ prev.pre.after = "nothing" -> "nothing"
      [] prev.op = "disconnect" /\ prev.pre.after = "connect" -> "disconnect"
      [] OTHER -> "other"

\* disconnect, up to the wait for this.client.end().
Disconnect(c) ==
    /\ NoCallInFlight
    /\ call' = [call EXCEPT ![c] =
                  [IdleCall EXCEPT !.op = "disconnect", !.pc = "awaitEnd",
                                   !.log = <<<<"client.end", 0>>>>,
                                   !.pre = [slot |-> proxySocket,
                                            alive |-> Alive(sockets),
                                            after |-> Preceding(call[c])]]]
    /\ UNCHANGED <<proxySocket, sockets, dirs>>
    /\ Awaited

\* FinallySlot without the assignment of line 634.
FinallySlotKept(slot, raised) == slot

\* The finally block's cleanup of the slot.
FinallySlot(slot, raised) == IF slot # 0 /\ ~raised THEN 0 ELSE slot

\* The finally block of disconnect, then the call's outcome.
Finally(c, cur, primary, raised) ==
    /\ proxySocket # 0 => sockets[proxySocket].destroyCalls < MaxDestroys
    /\ sockets' = IF proxySocket # 0 THEN Destroy(sockets, proxySocket) ELSE sockets
    /\ proxySocket' = FinallySlot(proxySocket, raised)
    /\ LET outcome == Swallowed(primary, proxySocket # 0 /\ raised)
       IN  call' = [call EXCEPT ![c] =
                      [cur EXCEPT !.pc = "idle", !.result = outcome.result,
                                  !.message = outcome.message,
                                  !.log = IF proxySocket # 0
                                          THEN DestroyInvoked(@, proxySocket, raised)
                                          ELSE @]]
    /\ UNCHANGED dirs
    /\ Awaited

\* this.client.end() resolves.
EndResolved(c, raised) ==
    /\ call[c].pc = "awaitEnd"
    /\ Finally(c, [call[c] EXCEPT !.log = Append(@, <<"end.resolved", 0>>)],
               [result |-> "resolved", message |-> <<>>], raised)

\* EndRejected with the cleanup after the await instead of in a finally block.
EndRejectedNoFinally(c, raised) ==
    /\ call[c].pc = "awaitEnd"
    /\ call' = [call EXCEPT ![c] =
                  [@ EXCEPT !.pc = "idle", !.result = "rejected",
                            !.message = <<DisconnectFailed>> \o EndErrMsg]]
    /\ UNCHANGED <<proxySocket, sockets, dirs>>
    /\ Awaited

\* this.client.end() rejects: the error is wrapped, the finally block runs.
EndRejected(c, raised) ==
    /\ call[c].pc = "awaitEnd"
    /\ Finally(c, [call[c] EXCEPT !.log = Append(@, <<"end.rejected", 0>>)],
               [result |-> "rejected", message |-> Wrapped(DisconnectFailed, EndErrMsg)],
               raised)

(***************************************************************************)
(* The specification: one call at a time on one client instance, with      *)
(* sockets whose destroy() returns normally.                               *)
(***************************************************************************)
Step(c, raised, Inputs, Answers) ==
    \/ \E opt \in Inputs :
          \/ ConnectDirect(c, opt)
          \/ ConnectUnsupported(c, opt, raised)
          \/ ConnectHttp(c, opt)
          \/ ConnectSocksTls(c, opt)
          \/ ConnectSocks(c, opt)
    \/ \E resp \in Answers : HttpTransportReady(c, resp)
    \/ TransportError(c, raised)
    \/ ProxyData(c, raised)
    \/ ProxyError(c, raised)
    \/ ProxyClose(c, raised)
    \/ SocksTlsTransportReady(c)
    \/ SocksConnected(c)
    \/ SocksNoSocket(c, raised)
    \/ SocksFailed(c, raised)
    \/ SessionConnected(c)
    \/ SessionFailed(c, raised)
    \/ Disconnect(c)
    \/ EndResolved(c, raised)
    \/ EndRejected(c, raised)

Next == \E c \in SeqCalls : Step(c, FALSE, ConnectInputs, Responses)

Spec == Init /\ [][Next]_vars

(***************************************************************************)
(* cd, and clients constructed with several root paths that connect        *)
(* directly or through a plain SOCKS proxy, change directory and           *)
(* disconnect.                                                             *)
(***************************************************************************)
\* The record of a call of an operation other than connect and disconnect:
\* its arguments (remote paths), the remote paths it has handed to the
\* session layer, and the value it has returned.
OpCall(op, args) ==
    [IdleCall EXCEPT !.op = op]
        @@ ("args" :> args) @@ ("paths" :> <<>>) @@ ("value" :> <<>>)

\* Cd that appends every path, one that starts with a slash included, to
\* the current directory.
CdAppends(c, remoteDir) ==
    /\ NoCallInFlight
    /\ LET newDir == PosixJoin(currentDir, remoteDir)
       IN  /\ Len(Segments(newDir)) <= MaxDepth
           /\ currentDir' = newDir
    /\ call' = [call EXCEPT ![c] =
                  [OpCall("cd", <<remoteDir>>) EXCEPT !.result = "resolved"]]
    /\ UNCHANGED <<proxySocket, sockets, basePath>>
    /\ Awaited

\* cd(remoteDir): the new current directory is resolved against the base
\* path (an argument that starts with a slash) or the current directory.
Cd(c, remoteDir) ==
    /\ NoCallInFlight
    /\ LET newDir == IF StartsWithSlash(remoteDir)
                     THEN resolveRemotePath(basePath, basePath, remoteDir)
                     ELSE resolveRemotePath(basePath, currentDir, remoteDir)
       IN  /\ Len(Segments(newDir)) <= MaxDepth
           /\ currentDir' = newDir
    /\ call' = [call EXCEPT ![c] =
                  [OpCall("cd", <<remoteDir>>) EXCEPT !.result = "resolved"]]
    /\ UNCHANGED <<proxySocket, sockets, basePath>>
    /\ Awaited

InitDirs == facade = NoFacade /\ \E rootPath \in RootPaths : Constructed(rootPath)

DirInputs ==
    [fields : {BasicFields}, proxy : {NoProxy, Descriptor(TRUE, T_socks5, FALSE)}]

NextDirs ==
    \E c \in SeqCalls :
        \/ \E opt \in DirInputs : ConnectDirect(c, opt) \/ ConnectSocks(c, opt)
        \/ SocksConnected(c)
        \/ SocksNoSocket(c, FALSE)
        \/ SocksFailed(c, FALSE)
        \/ SessionConnected(c)
        \/ SessionFailed(c, FALSE)
        \/ Disconnect(c)
        \/ EndResolved(c, FALSE)
        \/ EndRejected(c, FALSE)
        \/ \E remoteDir \in RemoteDirs : Cd(c, remoteDir)

SpecDirs == InitDirs /\ [][NextDirs]_vars

(***************************************************************************)
(* pwd and the file operations: each resolves its remote paths, hands them *)
(* to the session layer and wraps the session layer's error.               *)
(***************************************************************************)
FileOps == {"list", "downloadFile", "uploadFile", "deleteFile", "renameFile"}

\* The session layer's method each file operation awaits.
LibraryCall(op) ==
    CASE op = "list" -> "client.list"
      [] op = "downloadFile" -> "client.get"
      [] op = "uploadFile" -> "client.put"
      [] op = "deleteFile" -> "client.delete"
      [] op = "renameFile" -> "client.rename"

\* The prefix SFTPClient puts before the message of a failed file operation.
SftpPrefix(op) ==
    CASE op = "list" -> "SFTPClient: List failed: "
      [] op = "downloadFile" -> "SFTPClient: Download failed: "
      [] op = "uploadFile" -> "SFTPClient: Upload failed: "
      [] op = "deleteFile" -> "SFTPClient: Delete failed: "
      [] op = "renameFile" -> "SFTPClient: Rename failed: "

\* Message of an error raised by a file operation of the session layer.
OpErrMsg == <<"No such file">>

\* normalizeFileType; the numbers 2 and 1 of the FTP library are written
\* "2" and "1".
normalizeFileType(type) ==
    CASE type \in {"2", "d"} -> [type |-> "directory", isDirectory |-> TRUE, isFile |-> FALSE]
      [] type \in {"1", "-"} -> [type |-> "file", isDirectory |-> FALSE, isFile |-> TRUE]
      [] type = "l" -> [type |-> "symlink", isDirectory |-> FALSE, isFile |-> FALSE]
      [] OTHER -> [type |-> "unknown", isDirectory |-> FALSE, isFile |-> FALSE]

\* mapSFTPFileInfo, on the name and the type of an entry (size, times,
\* owner, group and rights are copied as they are).
mapSFTPFileInfo(info) ==
    LET norm == normalizeFileType(info.type)
    IN  [name |-> info.name, type |-> norm.type,
         isDirectory |-> norm.isDirectory, isFile |-> norm.isFile]

\* Listings the session layer may answer a list with.
Listings == { <<>>, <<[name |-> "f", type |-> "-"], [name |-> "a", type |-> "d"]>> }

\* A file operation up to its await: every remote path of args is resolved
\* with resolveRemotePath and the session layer's method is invoked with
\* the resolved paths.
Hand(c, op, args) ==
    /\ NoCallInFlight
    /\ call' = [call EXCEPT ![c] =
                  [OpCall(op, args) EXCEPT
                      !.pc = "awaitOp",
                      !.paths = [i \in DOMAIN args |->
                                    resolveRemotePath(basePath, currentDir, args[i])],
                      !.log = <<<<LibraryCall(op), 0>>>>]]
    /\ UNCHANGED <<proxySocket, sockets, dirs>>
    /\ Awaited

\* list(remoteDir?): remoteDir ?? '' is resolved.
List(c, remoteDir) ==
    /\ NoCallInFlight
    /\ LET dirToResolve == IF remoteDir.defined THEN remoteDir.val ELSE <<>>
       IN  call' = [call EXCEPT ![c] =
                      [OpCall("list", IF remoteDir.defined THEN <<remoteDir.val>> ELSE <<>>)
                          EXCEPT !.pc = "awaitOp",
                                 !.paths = <<resolveRemotePath(basePath, currentDir,
                                                               dirToResolve)>>,
                                 !.log = <<<<LibraryCall("list"), 0>>>>]]
    /\ UNCHANGED <<proxySocket, sockets, dirs>>
    /\ Awaited

\* downloadFile(remoteFile, localFile)
DownloadFile(c, remoteFile) == Hand(c, "downloadFile", <<remoteFile>>)

\* uploadFile(localFile, remoteFile)
UploadFile(c, remoteFile) == Hand(c, "uploadFile", <<remoteFile>>)

\* deleteFile(remoteFile)
DeleteFile(c, remoteFile) == Hand(c, "deleteFile", <<remoteFile>>)

\* renameFile(oldPath, newPath)
RenameFile(c, oldPath, newPath) == Hand(c, "renameFile", <<oldPath, newPath>>)

\* The session layer's method resolves: list returns the entries mapped by
\* mapSFTPFileInfo, the other operations return nothing.
OpResolved(c, rawList) ==
    /\ call[c].pc = "awaitOp"
    /\ call' = [call EXCEPT ![c] =
                  [@ EXCEPT !.pc = "idle", !.result = "resolved",
                            !.value = IF call[c].op = "list"
                                      THEN [i \in DOMAIN rawList |->
                                               mapSFTPFileInfo(rawList[i])]
                                      ELSE <<>>]]
    /\ UNCHANGED <<proxySocket, sockets, dirs>>
    /\ Awaited

\* The session layer's method rejects: the error is wrapped.
OpRejected(c) ==
    /\ call[c].pc = "awaitOp"
    /\ call' = [call EXCEPT ![c] =
                  [@ EXCEPT !.pc = "idle", !.result = "rejected",
                            !.message = Wrapped(SftpPrefix(call[c].op), OpErrMsg)]]
    /\ UNCHANGED <<proxySocket, sockets, dirs>>
    /\ Awaited

\* pwd that asks the session layer for its working directory.
PwdFromSession(c) ==
    /\ NoCallInFlight
    /\ call' = [call EXCEPT ![c] =
                  [OpCall("pwd", <<>>) EXCEPT !.pc = "awaitOp",
                                              !.log = <<<<"client.cwd", 0>>>>]]
    /\ UNCHANGED <<proxySocket, sockets, dirs>>
    /\ Awaited
\* pwd(): the current directory.
Pwd(c) ==
    /\ NoCallInFlight
    /\ call' = [call EXCEPT ![c] =
                  [OpCall("pwd", <<>>) EXCEPT !.result = "resolved",
                                              !.value = currentDir]]
    /\ UNCHANGED <<proxySocket, sockets, dirs>>
    /\ Awaited

\* Arguments of list: none, a relative directory, an absolute one.
ListDirs == {Undefined, Str(<<"a">>), Str(<<Slash, "b", Slash>>), Str(<<"..", Slash, "..">>)}

\* Remote file arguments of the file operations.
RemoteFiles == { <<"f">>, <<Slash, "f">>, <<"a", Slash, "..", Slash, "f">>,
                 <<Slash, "..", Slash, "..", Slash, "f">> }

InitFiles == facade = NoFacade /\ \E rootPath \in RootPaths : Constructed(rootPath)

NextFiles ==
    \E c \in SeqCalls :
        \/ \E remoteDir \in RemoteDirs : Cd(c, remoteDir)
        \/ Pwd(c)
        \/ \E remoteDir \in ListDirs : List(c, remoteDir)
        \/ \E remoteFile \in RemoteFiles :
              \/ DownloadFile(c, remoteFile)
              \/ UploadFile(c, remoteFile)
              \/ DeleteFile(c, remoteFile)
              \/ RenameFile(c, remoteFile, <<"g">>)
              \/ RenameFile(c, <<"f">>, remoteFile)
        \/ \E rawList \in Listings : OpResolved(c, rawList)
        \/ OpRejected(c)

SpecFiles == InitFiles /\ [][NextFiles]_vars

(***************************************************************************)
(* Clients that connect, change directory, ask for the current directory   *)
(* and disconnect in any order.                                            *)
(***************************************************************************)
NextLocal == NextDirs \/ \E c \in SeqCalls : Pwd(c)

SpecLocal == InitDirs /\ [][NextLocal]_vars
(***************************************************************************)
(* The same client called with options that vary in their fields and in    *)
(* the proxy's credentials, and a proxy with fewer answers.                *)
(***************************************************************************)
OptionResponses ==
    { H11 \o OK200 \o CRLF \o CRLF,
      H11 \o NO407 \o CRLF \o CRLF }

NextOptions == \E c \in SeqCalls : Step(c, FALSE, OptionInputs, OptionResponses)

SpecOptions == Init /\ [][NextOptions]_vars

(***************************************************************************)
(* The same client with sockets whose destroy() may raise.                 *)
(***************************************************************************)
RaiseInputs ==
    [fields : {BasicFields},
     proxy : {NoProxy, Descriptor(TRUE, <<"f", "t", "p">>, FALSE)}
                 \cup {Descriptor(TRUE, t, s) : t \in {T_https, T_socks5}, s \in BOOLEAN}]

NextRaise ==
    \E c \in SeqCalls, raised \in BOOLEAN : Step(c, raised, RaiseInputs, OptionResponses)

SpecRaise == Init /\ [][NextRaise]_vars

(***************************************************************************)
(* The same client called with descriptors that do and do not set          *)
(* secureRejectUnauthorized.                                               *)
(***************************************************************************)
TlsInputs ==
    [fields : {BasicFields},
     proxy : {NoProxy, Descriptor(TRUE, <<"f", "t", "p">>, FALSE),
              Descriptor(TRUE, T_http, FALSE), Descriptor(TRUE, T_socks4, FALSE),
              Descriptor(TRUE, T_https, FALSE), Descriptor(TRUE, T_socks5, TRUE)}
                 \cup {WithRejectUnauthorized(Descriptor(TRUE, T_https, FALSE), v) :
                          v \in JsValues}
                 \cup {WithRejectUnauthorized(Descriptor(TRUE, T_socks5, TRUE), v) :
                          v \in {"true", "null"}}]

NextTls == \E c \in SeqCalls : Step(c, FALSE, TlsInputs, OptionResponses)

SpecTls == Init /\ [][NextTls]_vars

(***************************************************************************)
(* A client whose first call is a connect with any letter-case variant of *)
(* the four supported proxy types, followed by disconnects.                *)
(***************************************************************************)
\* The upper-case form of one character.
UpperChar(ch) ==
    IF \E i \in 1..Len(LowerLetters) : LowerLetters[i] = ch
    THEN UpperLetters[CHOOSE i \in 1..Len(LowerLetters) : LowerLetters[i] = ch]
    ELSE ch

\* The strings that differ from s in the case of letters only.
RECURSIVE CaseVariants(_)
CaseVariants(s) ==
    IF s = <<>> THEN {<<>>}
    ELSE {<<ch>> \o rest : ch \in {Head(s), UpperChar(Head(s))},
                           rest \in CaseVariants(Tail(s))}

CaseInputs ==
    [fields : {BasicFields},
     proxy : {NoProxy, Descriptor(TRUE, <<"f", "t", "p">>, FALSE)}
                 \cup {Descriptor(TRUE, v, s) :
                          v \in UNION {CaseVariants(t) : t \in {T_http, T_https, T_socks4, T_socks5}},
                          s \in BOOLEAN}]

\* No call has been made on the client yet.
FirstCall(c) == call[c].op = "none"

NextCase ==
    \E c \in SeqCalls :
        \/ \E opt \in CaseInputs :
              \/ FirstCall(c) /\ ConnectDirect(c, opt)
              \/ FirstCall(c) /\ ConnectUnsupported(c, opt, FALSE)
              \/ FirstCall(c) /\ ConnectHttp(c, opt)
              \/ FirstCall(c) /\ ConnectSocksTls(c, opt)
              \/ FirstCall(c) /\ ConnectSocks(c, opt)
        \/ \E resp \in OptionResponses : HttpTransportReady(c, resp)
        \/ TransportError(c, FALSE)
        \/ ProxyData(c, FALSE)
        \/ ProxyError(c, FALSE)
        \/ ProxyClose(c, FALSE)
        \/ SocksTlsTransportReady(c)
        \/ SocksConnected(c)
        \/ SocksNoSocket(c, FALSE)
        \/ SocksFailed(c, FALSE)
        \/ SessionConnected(c)
        \/ SessionFailed(c, FALSE)
        \/ Disconnect(c)
        \/ EndResolved(c, FALSE)
        \/ EndRejected(c, FALSE)

SpecCase == Init /\ [][NextCase]_vars
(***************************************************************************)
(* The proxy socket after the header reader has settled: it goes on        *)
(* emitting events, which reach the reader only through listeners that are *)
(* still attached.                                                         *)
(***************************************************************************)
\* connect through an http and an https proxy.
LiveInputs ==
    [fields : {BasicFields},
     proxy : {Descriptor(TRUE, T_http, FALSE), Descriptor(TRUE, T_https, FALSE)}]

\* Answers of the proxy: a header block alone and with bytes after it, a
\* refusal, a header block without its terminator, nothing.
ReaderResponses ==
    { H11 \o OK200 \o CRLF \o CRLF,
      H11 \o OK200 \o CRLF \o CRLF \o <<"S", "S", "H">>,
      H11 \o NO407 \o CRLF \o CRLF,
      H11 \o OK200 \o CRLF,
      <<>> }

\* Chunks that arrive after the header block.
LateChunks == { <<"S", "S", "H">>, CRLF \o CRLF }

\* The reader's listener of the event kind runs on the call record cur after
\* the promise has settled: the accumulator and the calls of resolve and
\* reject are the listener's own, the promise keeps its first result.
Heard(cur, kind, chunk) ==
    LET s == CASE kind = "data" -> onData(cur.response, chunk)
               [] kind = "error" -> onError(cur.response, SocketErrMsg)
               [] kind = "close" -> onClose(cur.response)
        ev == CASE kind = "data" -> "headers"
                [] kind = "error" -> "error"
                [] kind = "close" -> "close"
    IN  [cur EXCEPT !.response = s.response,
                    !.log = IF s.settled = "pending" THEN @
                            ELSE Append(@, <<ev, cur.sock>>)]

\* The socket of call c, a connect through an HTTP proxy whose reader has
\* settled, emits an event: a listener of the reader that is still attached
\* runs.
LateEvent(c, kind, chunk) ==
    /\ call[c].path = "http"
    /\ call[c].pc \in {"awaitSession", "idle"}
    /\ call[c].sock # 0
    /\ \E i \in DOMAIN call[c].log : call[c].log[i][1] = "write"
    /\ sockets[call[c].sock].late < MaxLate
    /\ sockets' = [sockets EXCEPT ![call[c].sock].late = @ + 1]
    /\ call' = IF call[c].listening
               THEN [call EXCEPT ![c] = Heard(call[c], kind, chunk)]
               ELSE call
    /\ UNCHANGED <<proxySocket, dirs>>
    /\ Awaited

(***************************************************************************)
(* Two connect calls on one instance that overlap: the second is called    *)
(* while the first is suspended at one of its awaits.                      *)
(***************************************************************************)
OverlapCalls == {1, 2}

OverlapInputs ==
    [fields : {BasicFields},
     proxy : {NoProxy, Descriptor(TRUE, T_socks5, FALSE), Descriptor(TRUE, T_socks4, FALSE)}]

InitOverlap ==
    /\ proxySocket = 0
    /\ sockets = <<>>
    /\ call = [c \in OverlapCalls |-> IdleCall]
    /\ basePath = normalizeDir(RootPath)
    /\ currentDir = normalizeDir(RootPath)
    /\ facade = NoFacade

\* Call c has not been made, and it is the first call or the other call is
\* in flight.
MayOverlap(c) ==
    /\ call[c].op = "none"
    /\ \A d \in OverlapCalls \ {c} : call[d].op = "none" \/ call[d].pc # "idle"

NextOverlap ==
    \E c \in OverlapCalls :
        \/ \E opt \in OverlapInputs : MayOverlap(c) /\ BeginDirect(c, opt)
        \/ \E opt \in OverlapInputs : MayOverlap(c) /\ BeginSocks(c, opt)
        \/ SocksConnected(c)
        \/ SocksNoSocket(c, FALSE)
        \/ SocksFailed(c, FALSE)
        \/ SessionConnected(c)
        \/ SessionFailed(c, FALSE)

SpecOverlap == InitOverlap /\ [][NextOverlap]_vars

NextReader ==
    \E c \in SeqCalls :
        \/ \E opt \in LiveInputs : ConnectHttp(c, opt)
        \/ \E resp \in ReaderResponses : HttpTransportReady(c, resp)
        \/ TransportError(c, FALSE)
        \/ ProxyData(c, FALSE)
        \/ ProxyError(c, FALSE)
        \/ ProxyClose(c, FALSE)
        \/ SessionConnected(c)
        \/ SessionFailed(c, FALSE)
        \/ \E chunk \in LateChunks : LateEvent(c, "data", chunk)
        \/ LateEvent(c, "error", <<>>)
        \/ LateEvent(c, "close", <<>>)

SpecReader == Init /\ [][NextReader]_vars

(***************************************************************************)
(* connect through an HTTP proxy that does not stall for ever: as long as  *)
(* the header reader listens the socket will emit an error or a close (the *)
(* event loop runs the listener of each event it receives), and the        *)
(* session layer's connect, which has its own handshake timeout, settles.  *)
(***************************************************************************)
\* The proxy socket fails or is closed while the header reader listens.
ProxyEnds(c) == ProxyError(c, FALSE) \/ ProxyClose(c, FALSE)

\* The session layer's connect settles.
SessionSettles(c) == SessionConnected(c) \/ SessionFailed(c, FALSE)

NextLive ==
    \E c \in SeqCalls :
        \/ \E opt \in LiveInputs : ConnectHttp(c, opt)
        \/ \E resp \in Responses : HttpTransportReady(c, resp)
        \/ TransportError(c, FALSE)
        \/ ProxyData(c, FALSE)
        \/ ProxyError(c, FALSE)
        \/ ProxyClose(c, FALSE)
        \/ SessionConnected(c)
        \/ SessionFailed(c, FALSE)

SpecLive ==
    /\ Init
    /\ [][NextLive]_vars
    /\ \A c \in SeqCalls : WF_vars(ProxyEnds(c)) /\ WF_vars(SessionSettles(c))

(***************************************************************************)
(* The operations of the facade, over an FTPClient of which connect is the *)
(* operation modelled and over the SFTPClient.                             *)
(***************************************************************************)
ProxyOnlySftpMsg ==
    <<"Proxy is only supported for SFTP. FTP/FTPS proxy is not supported by this package.">>

\* Message of an error raised by the FTP library.
FtpErrMsg == <<"530 Login incorrect">>

\* ProxyRefused that lets a descriptor with enabled false through.
ProxyRefusedIfEnabled(protocol, opt) ==
    protocol # "sftp" /\ opt.proxy.present /\ opt.proxy.enabled

\* this.protocol !== 'sftp' && options?.proxy: a descriptor is an object,
\* truthy whatever its enabled says.
ProxyRefused(protocol, opt) == protocol # "sftp" /\ opt.proxy.present

\* FTPClient.connect, up to the wait for the FTP library's access().
FtpConnect(c, opt) ==
    /\ NoCallInFlight
    /\ call' = [call EXCEPT ![c] =
                  [IdleCall EXCEPT !.op = "ftp.connect", !.pc = "awaitFtp",
                                   !.opts = opt, !.log = <<<<"ftp.access", 0>>>>]]
    /\ UNCHANGED <<proxySocket, sockets, dirs>>
    /\ Awaited

\* The FTP library's access() resolves.
FtpConnected(c) ==
    /\ call[c].pc = "awaitFtp"
    /\ call[c].op = "ftp.connect"
    /\ call' = [call EXCEPT ![c] = [@ EXCEPT !.pc = "idle", !.result = "resolved"]]
    /\ UNCHANGED <<proxySocket, sockets, dirs>>
    /\ Awaited

\* The FTP library's access() rejects: FTPClient wraps the error.
FtpConnectFailed(c) ==
    /\ call[c].pc = "awaitFtp"
    /\ call[c].op = "ftp.connect"
    /\ call' = [call EXCEPT ![c] =
                  [@ EXCEPT !.pc = "idle", !.result = "rejected",
                            !.message = Wrapped("FTPClient: Connection failed: ",
                                                FtpErrMsg)]]
    /\ UNCHANGED <<proxySocket, sockets, dirs>>
    /\ Awaited

\* The operations of FTPClient that wait for a method of the FTP library.
FtpOps == {"list", "cd", "pwd", "downloadFile", "uploadFile", "deleteFile", "renameFile"}

\* The name a call of FTPClient is recorded under.
FtpName(op) ==
    CASE op = "connect" -> "ftp.connect"
      [] op = "list" -> "ftp.list"
      [] op = "cd" -> "ftp.cd"
      [] op = "pwd" -> "ftp.pwd"
      [] op = "downloadFile" -> "ftp.downloadFile"
      [] op = "uploadFile" -> "ftp.uploadFile"
      [] op = "deleteFile" -> "ftp.deleteFile"
      [] op = "renameFile" -> "ftp.renameFile"
      [] op = "disconnect" -> "ftp.disconnect"

\* The FTP library's method each operation of FTPClient calls.
FtpLibraryCall(name) ==
    CASE name = "ftp.list" -> "ftp.list()"
      [] name = "ftp.cd" -> "ftp.cd()"
      [] name = "ftp.pwd" -> "ftp.pwd()"
      [] name = "ftp.downloadFile" -> "ftp.downloadTo()"
      [] name = "ftp.uploadFile" -> "ftp.uploadFrom()"
      [] name = "ftp.deleteFile" -> "ftp.remove()"
      [] name = "ftp.renameFile" -> "ftp.rename()"
      [] name = "ftp.disconnect" -> "ftp.close()"

\* The prefix FTPClient puts before the message of a failed operation.
FtpPrefix(name) ==
    CASE name = "ftp.list" -> "FTPClient: List failed: "
      [] name = "ftp.cd" -> "FTPClient: cd failed: "
      [] name = "ftp.pwd" -> "FTPClient: pwd failed: "
      [] name = "ftp.downloadFile" -> "FTPClient: Download failed: "
      [] name = "ftp.uploadFile" -> "FTPClient: Upload failed: "
      [] name = "ftp.deleteFile" -> "FTPClient: Delete failed: "
      [] name = "ftp.renameFile" -> "FTPClient: Rename failed: "
      [] name = "ftp.disconnect" -> "FTPClient: Disconnect failed: "

\* mapFTPFileInfo, on the name and the type of an entry.
mapFTPFileInfo(info) ==
    LET norm == normalizeFileType(info.type)
    IN  [name |-> info.name, type |-> norm.type,
         isDirectory |-> norm.isDirectory, isFile |-> norm.isFile]

\* Listings the FTP library may answer a list with: its types are numbers.
FtpListings == { <<>>, <<[name |-> "f", type |-> "1"], [name |-> "a", type |-> "2"]>> }

\* Directories the FTP server may answer a pwd with.
FtpDirs == { <<Slash, "srv", Slash, "ftp">>, <<Slash>> }

\* FtpHand with cd storing the new directory before the server has answered.
FtpHandCdFirst(c, op, args) ==
    /\ NoCallInFlight
    /\ op \in FtpOps
    /\ LET given == IF op = "list"
                    THEN <<IF args[1].defined THEN args[1].val ELSE <<>> >>
                    ELSE args
           paths == [i \in DOMAIN given |->
                        resolveRemotePath(basePath, currentDir, given[i])]
       IN  /\ call' = [call EXCEPT ![c] =
                         [OpCall(FtpName(op), args) EXCEPT
                             !.pc = "awaitFtp",
                             !.paths = paths,
                             !.log = <<<<FtpLibraryCall(FtpName(op)), 0>>>>]]
           /\ currentDir' = IF op = "cd" THEN paths[1] ELSE currentDir
    /\ UNCHANGED <<proxySocket, sockets, basePath>>
    /\ Awaited
\* An operation of FTPClient other than connect and disconnect, up to its
\* await: list resolves remoteDir ?? '', cd its new directory, the file
\* operations their remote paths; pwd has no path.
FtpHand(c, op, args) ==
    /\ NoCallInFlight
    /\ op \in FtpOps
    /\ LET given == IF op = "list"
                    THEN <<IF args[1].defined THEN args[1].val ELSE <<>> >>
                    ELSE args
       IN  call' = [call EXCEPT ![c] =
                      [OpCall(FtpName(op), args) EXCEPT
                          !.pc = "awaitFtp",
                          !.paths = [i \in DOMAIN given |->
                                        resolveRemotePath(basePath, currentDir, given[i])],
                          !.log = <<<<FtpLibraryCall(FtpName(op)), 0>>>>]]
    /\ UNCHANGED <<proxySocket, sockets, dirs>>
    /\ Awaited

\* The FTP library's method resolves: cd stores the new directory, pwd
\* stores and returns the server's directory normalized, list returns the
\* entries mapped by mapFTPFileInfo.
FtpResolved(c, rawList, dir) ==
    /\ call[c].pc = "awaitFtp"
    /\ call[c].op \in {FtpName(op) : op \in FtpOps}
    /\ currentDir' = CASE call[c].op = "ftp.cd" -> call[c].paths[1]
                        [] call[c].op = "ftp.pwd" -> normalizeDir(dir)
                        [] OTHER -> currentDir
    /\ call' = [call EXCEPT ![c] =
                  [@ EXCEPT !.pc = "idle", !.result = "resolved",
                            !.value = CASE call[c].op = "ftp.list" ->
                                             [i \in DOMAIN rawList |->
                                                 mapFTPFileInfo(rawList[i])]
                                        [] call[c].op = "ftp.pwd" -> normalizeDir(dir)
                                        [] OTHER -> <<>>]]
    /\ UNCHANGED <<proxySocket, sockets, basePath>>
    /\ Awaited

\* The FTP library's method rejects: FTPClient wraps the error.
FtpRejected(c) ==
    /\ call[c].pc = "awaitFtp"
    /\ call[c].op \in {FtpName(op) : op \in FtpOps}
    /\ call' = [call EXCEPT ![c] =
                  [@ EXCEPT !.pc = "idle", !.result = "rejected",
                            !.message = Wrapped(FtpPrefix(call[c].op), FtpErrMsg)]]
    /\ UNCHANGED <<proxySocket, sockets, dirs>>
    /\ Awaited

\* FTPClient.disconnect: close() of the FTP library returns, or raises and
\* the error is wrapped.
FtpDisconnect(c, raised) ==
    /\ NoCallInFlight
    /\ call' = [call EXCEPT ![c] =
                  [OpCall("ftp.disconnect", <<>>) EXCEPT
                      !.log = <<<<FtpLibraryCall("ftp.disconnect"), 0>>>>,
                      !.result = IF raised THEN "rejected" ELSE "resolved",
                      !.message = IF raised
                                  THEN Wrapped(FtpPrefix("ftp.disconnect"), FtpErrMsg)
                                  ELSE <<>>]]
    /\ UNCHANGED <<proxySocket, sockets, dirs>>
    /\ Awaited

\* facade.connect(options) on an ftp or ftps client with a proxy descriptor:
\* the throw of lines 65-67 and the catch block.
FacadeConnectRefused(opt) ==
    /\ facade.pc = "idle"
    /\ ProxyRefused(facade.protocol, opt)
    /\ facade' = [FacadeIdle(facade.protocol) EXCEPT
                     !.op = "connect", !.args = opt, !.result = "rejected",
                     !.message = Wrapped(FacadePrefix("connect"), ProxyOnlySftpMsg)]
    /\ UNCHANGED <<proxySocket, sockets, call, dirs>>

\* A facade operation up to the invocation of this.client.<op>(args).
FacadeInvoke(op, args) ==
    /\ facade.pc = "idle"
    /\ facade' = [FacadeIdle(facade.protocol) EXCEPT
                     !.pc = "awaitClient", !.op = op, !.args = args]
    /\ UNCHANGED <<proxySocket, sockets, call, dirs>>

\* facade.connect(options) that gets past the check of the protocol.
FacadeConnect(opt) ==
    /\ ~ProxyRefused(facade.protocol, opt)
    /\ FacadeInvoke("connect", opt)

\* The facade call in flight is about to run op of the client of a protocol
\* in kinds.
Invoking(op, kinds) ==
    /\ facade.pc = "awaitClient"
    /\ ~facade.invoked
    /\ facade.op = op
    /\ facade.protocol \in kinds

\* The options the callers of the facade pass to connect.
FacadeInputs ==
    [fields : {BasicFields},
     proxy : {NoProxy, Descriptor(FALSE, T_socks5, FALSE), Descriptor(TRUE, T_socks5, FALSE),
              Descriptor(TRUE, <<"f", "t", "p">>, FALSE)}]

\* The directories and the files the callers of the facade name.
FacadeDirs == { <<"a">>, <<Slash>> }
FacadeFiles == { <<"f">>, <<Slash, "f">> }

\* The cd keeps the current directory within the depth of the model.
WithinDepth(remoteDir) ==
    Len(Segments(resolveRemotePath(basePath, currentDir, remoteDir))) <= MaxDepth

\* A call of a facade operation other than connect.
FacadeCall ==
    \/ \E remoteDir \in {Undefined} \cup {Str(d) : d \in FacadeDirs} :
          FacadeInvoke("list", <<remoteDir>>)
    \/ \E remoteDir \in FacadeDirs :
          WithinDepth(remoteDir) /\ FacadeInvoke("cd", <<remoteDir>>)
    \/ FacadeInvoke("pwd", <<>>)
    \/ \E remoteFile \in FacadeFiles :
          \/ FacadeInvoke("downloadFile", <<remoteFile>>)
          \/ FacadeInvoke("uploadFile", <<remoteFile>>)
          \/ FacadeInvoke("deleteFile", <<remoteFile>>)
          \/ FacadeInvoke("renameFile", <<remoteFile, <<"g">> >>)
    \/ FacadeInvoke("disconnect", <<>>)

InitFacade ==
    /\ Constructed(RootPath)
    /\ \E protocol \in Protocols : facade = FacadeIdle(protocol)

NextFacade ==
    \/ \E opt \in FacadeInputs : FacadeConnectRefused(opt) \/ FacadeConnect(opt)
    \/ FacadeCall
    \/ Invoking("connect", {"ftp", "ftps"}) /\ FtpConnect(TheCall, facade.args)
    \/ Invoking("connect", {"sftp"}) /\ ConnectDirect(TheCall, facade.args)
    \/ Invoking("connect", {"sftp"}) /\ ConnectUnsupported(TheCall, facade.args, FALSE)
    \/ Invoking("connect", {"sftp"}) /\ ConnectSocks(TheCall, facade.args)
    \/ Invoking("list", {"sftp"}) /\ List(TheCall, facade.args[1])
    \/ Invoking("cd", {"sftp"}) /\ Cd(TheCall, facade.args[1])
    \/ Invoking("pwd", {"sftp"}) /\ Pwd(TheCall)
    \/ Invoking("downloadFile", {"sftp"}) /\ DownloadFile(TheCall, facade.args[1])
    \/ Invoking("uploadFile", {"sftp"}) /\ UploadFile(TheCall, facade.args[1])
    \/ Invoking("deleteFile", {"sftp"}) /\ DeleteFile(TheCall, facade.args[1])
    \/ Invoking("renameFile", {"sftp"}) /\ RenameFile(TheCall, facade.args[1], facade.args[2])
    \/ Invoking("disconnect", {"sftp"}) /\ Disconnect(TheCall)
    \/ \E op \in FtpOps : Invoking(op, {"ftp", "ftps"}) /\ FtpHand(TheCall, op, facade.args)
    \/ Invoking("disconnect", {"ftp", "ftps"}) /\ \E raised \in BOOLEAN :
          FtpDisconnect(TheCall, raised)
    \/ facade.invoked /\ SocksConnected(TheCall)
    \/ facade.invoked /\ SocksNoSocket(TheCall, FALSE)
    \/ facade.invoked /\ SocksFailed(TheCall, FALSE)
    \/ facade.invoked /\ SessionConnected(TheCall)
    \/ facade.invoked /\ SessionFailed(TheCall, FALSE)
    \/ facade.invoked /\ \E rawList \in Listings : OpResolved(TheCall, rawList)
    \/ facade.invoked /\ OpRejected(TheCall)
    \/ facade.invoked /\ EndResolved(TheCall, FALSE)
    \/ facade.invoked /\ EndRejected(TheCall, FALSE)
    \/ facade.invoked /\ FtpConnected(TheCall)
    \/ facade.invoked /\ FtpConnectFailed(TheCall)
    \/ facade.invoked /\ \E rawList \in FtpListings, dir \in FtpDirs :
          FtpResolved(TheCall, rawList, dir)
    \/ facade.invoked /\ FtpRejected(TheCall)

SpecFacade == InitFacade /\ [][NextFacade]_vars

(***************************************************************************)
(* Vocabulary of the properties.                                           *)
(***************************************************************************)
\* part occurs in msg as a contiguous run.
Contains(msg, part) == \E i \in 0..Len(msg) : OccursAt(msg, part, i)

\* The call in slot c is a connect that has rejected.
ConnectRejected(c) ==
    call[c].op = "connect" /\ call[c].pc = "idle" /\ call[c].result = "rejected"

\* The events of call c named ev.
Logged(c, ev) == {i \in DOMAIN call[c].log : call[c].log[i][1] = ev}

\* Call c opened a transport (net.connect, tls.connect) or called the SOCKS library.
OpenedSomething(c) ==
    Logged(c, "net.connect") \cup Logged(c, "tls.connect")
        \cup Logged(c, "socks.createConnection") # {}

SupportedTypes == {T_http, T_https, T_socks4, T_socks5}

\* Call c is a connect with an enabled proxy descriptor.
EnabledProxy(c) ==
    call[c].op = "connect" /\ call[c].opts.proxy.present /\ call[c].opts.proxy.enabled

\* What C1 asks of a connect with an unsupported type.
UnsupportedOutcome(c) ==
    /\ ConnectRejected(c)
    /\ Contains(call[c].message, <<"SFTPClient: Unsupported proxy.type '">>
                                    \o call[c].opts.proxy.type)
    /\ ~OpenedSomething(c)

(***************************************************************************)
(* C1 (as stated): a connect with an enabled proxy descriptor whose type   *)
(* is any string other than socks4, socks5, http, https rejects with the   *)
(* unsupported-proxy-type error naming the value, and opens no transport   *)
(* and makes no SOCKS call.  Refuted by the type 'HTTP'.                   *)
(***************************************************************************)
C1_AnyOtherStringRejected ==
    \A c \in DOMAIN call :
        (EnabledProxy(c) /\ call[c].opts.proxy.type \notin SupportedTypes)
            => UnsupportedOutcome(c)

(***************************************************************************)
(* C1 (amended): a connect with an enabled proxy descriptor whose type,    *)
(* lower-cased, is none of socks4, socks5, http, https rejects with the    *)
(* unsupported-proxy-type error naming the value as passed, and opens no   *)
(* transport and makes no SOCKS call in that attempt.                      *)
(***************************************************************************)
C1_UnsupportedTypeOpensNothing ==
    \A c \in DOMAIN call :
        (EnabledProxy(c) /\ ToLowerCase(call[c].opts.proxy.type) \notin SupportedTypes)
            => UnsupportedOutcome(c)

C1_Witness ==
    \E c \in DOMAIN call :
        /\ EnabledProxy(c)
        /\ call[c].opts.proxy.type = <<"f", "t", "p">>
        /\ ConnectRejected(c)
        /\ call[c].pre.slot # 0

\* The sockets call c opened itself and saw connected (connect/secureConnect).
ConnectedTransports(c) ==
    {call[c].log[i][2] : i \in Logged(c, "connect") \cup Logged(c, "secureConnect")}

(***************************************************************************)
(* C2: when a connect rejects, every transport to the proxy that the       *)
(* attempt opened has had destroy invoked on it exactly once.              *)
(***************************************************************************)
C2_OpenedSocketDestroyedOnce ==
    \A c \in DOMAIN call :
        ConnectRejected(c) =>
            \A id \in ConnectedTransports(c) : sockets[id].destroyCalls = 1

C4_RejectedConnectChangesNothing ==
    \A c \in DOMAIN call :
        ConnectRejected(c) =>
            /\ proxySocket = call[c].pre.slot
            /\ call[c].pre.slot # 0 => call[c].pre.slot \in Alive(sockets)

\* The tunnel sockets (sockets that were stored in the slot) still alive.
AliveTunnels == {i \in Alive(sockets) : sockets[i].tunnel}

\* The proxy paths of connect.
ProxyPaths == {"http", "socksTls", "socks"}

(***************************************************************************)
(* C5: at most one tunnel socket of the instance is alive at any time, and *)
(* the slot is empty whenever a connect begins a proxy path.               *)
(***************************************************************************)
C5_AtMostOneTunnelSocket ==
    /\ Cardinality(AliveTunnels) <= 1
    /\ \A c \in DOMAIN call :
          (call[c].op = "connect" /\ call[c].path \in ProxyPaths)
              => call[c].pre.slot = 0

AfterTerminator(sent) ==
    Subarray(sent, IndexOf(sent, headerEnd) + 4, Len(sent))

(***************************************************************************)
(* C7: when connect hands the tunnel to the session layer, the bytes the   *)
(* proxy sent after the header terminator are all still to be read from    *)
(* the socket, those that arrived in the terminator's chunk included.      *)
(***************************************************************************)
C7_TrailingBytesPreserved ==
    \A c \in DOMAIN call :
        (call[c].op = "connect" /\ call[c].path = "http" /\ call[c].pc = "awaitSession")
            => call[c].wire = AfterTerminator(call[c].sent)

\* The status line of what the proxy sent: its bytes before the first line break.
StatusLineOf(sent) == FirstLine(sent)

\* The offset (1-based) of the first byte after the version's first eight
\* bytes that is no whitespace, or 0.
CodeStart(line) ==
    LET at == {i \in 9..Len(line) : line[i] \notin Whitespace}
    IN  IF at = {} THEN 0 ELSE CHOOSE i \in at : \A j \in at : i <= j

\* The line reads HTTP/<digit>.<digit>, whitespace, the code 200, whitespace
\* and a (possibly empty) reason: read left to right, one field at a time.
IsStatus200(line) ==
    LET cs == CodeStart(line)
    IN  /\ Len(line) >= 9
        /\ ToLowerCase(SubSeq(line, 1, 5)) = <<"h", "t", "t", "p", "/">>
        /\ line[6] \in Digits /\ line[7] = "." /\ line[8] \in Digits
        /\ line[9] \in Whitespace
        /\ cs # 0
        /\ cs + 3 <= Len(line)
        /\ SubSeq(line, cs, cs + 2) = <<"2", "0", "0">>
        /\ line[cs + 3] \in Whitespace

\* The header reader of call c has resolved (a header block holds the terminator).
HeaderRead(c) ==
    call[c].op = "connect" /\ call[c].path = "http" /\ call[c].headerBuf # <<>>

(***************************************************************************)
(* C8: once the CONNECT response header is read, connect goes on to the    *)
(* session layer's connect, with the socket to the proxy as sock, exactly  *)
(* when the status line of what the proxy sent is HTTP/<ver> 200 <reason>; *)
(* otherwise connect rejects with a message that contains that status      *)
(* line and the session layer is not called.  Later header lines do not    *)
(* count.                                                                  *)
(***************************************************************************)
C8_StatusLineDecides ==
    \A c \in DOMAIN call :
        HeaderRead(c) =>
            IF IsStatus200(StatusLineOf(call[c].sent))
            THEN /\ Logged(c, "client.connect") # {}
                 /\ call[c].payload.sock = call[c].sock
                 /\ call[c].payload.sock # 0
                 /\ ~call[c].payload.direct
            ELSE /\ ConnectRejected(c)
                 /\ Contains(call[c].message, StatusLineOf(call[c].sent))
                 /\ Contains(call[c].message,
                             <<"SFTPClient: HTTP CONNECT failed via proxy ">>)
                 /\ Logged(c, "client.connect") = {}

C8_Witness ==
    \E c \in DOMAIN call :
        /\ HeaderRead(c)
        /\ ConnectRejected(c)
        /\ call[c].sent = H11 \o NO407 \o CRLF \o H11 \o OK200 \o CRLF \o CRLF
        /\ Contains(call[c].message, H11 \o NO407)

\* Everything up to and including the first terminator of what the proxy sent.
HeaderBlockOf(sent) == SubSeq(sent, 1, IndexOf(sent, headerEnd) + 4)

\* connect went on to the session layer's connect.
Accepted(c) == Logged(c, "client.connect") # {}

(***************************************************************************)
(* C9: however the proxy's bytes are split into data events, the header    *)
(* reader resolves as soon as the bytes delivered hold a terminator, with  *)
(* the bytes up to and including the first terminator of what the proxy    *)
(* sent, and connect accepts or rejects as it does on that block in one    *)
(* piece.                                                                  *)
(***************************************************************************)
C9_ChunkingIndependent ==
    \A c \in DOMAIN call :
        (call[c].op = "connect" /\ call[c].path = "http") =>
            /\ call[c].pc = "readHeaders" =>
                  IndexOf(call[c].response, headerEnd) = -1
            /\ HeaderRead(c) =>
                  /\ call[c].headerBuf = HeaderBlockOf(call[c].sent)
                  /\ Accepted(c) <=> StatusLineOk(FirstLine(HeaderBlockOf(call[c].sent)))
                  /\ ~Accepted(c) => ConnectRejected(c)

C9_Witness ==
    \E c \in DOMAIN call :
        /\ HeaderRead(c)
        /\ call[c].cut
        /\ call[c].pc = "awaitSession"
        /\ call[c].sent = H11 \o OK200 \o CRLF \o <<"X", ":", "4", "0", "7">> \o CRLF \o CRLF

\* The socket of call c closed or failed while the header reader listened.
ClosedEarly(c) == Logged(c, "close") \cup Logged(c, "error") # {}

(***************************************************************************)
(* C10: if the proxy socket closes or fails after the CONNECT request was  *)
(* written and before the terminator was seen, connect rejects, however    *)
(* many header bytes had arrived, and the session layer's connect is not   *)
(* invoked in that attempt.                                                *)
(***************************************************************************)
C10_EarlyCloseRejects ==
    \A c \in DOMAIN call :
        (call[c].op = "connect" /\ ClosedEarly(c)) =>
            /\ Logged(c, "write") # {}
            /\ ConnectRejected(c)
            /\ Logged(c, "client.connect") = {}
            /\ call[c].headerBuf = <<>>

C10_Witness ==
    \E c \in DOMAIN call :
        /\ call[c].op = "connect"
        /\ Logged(c, "close") # {}
        /\ call[c].partial
        /\ call[c].sent = H11 \o OK200 \o CRLF
        /\ ConnectRejected(c)

\* A line of the request and the CRLF that ends it.
Line(text) == text \o <<CR, LF>>

\* <destHost>:<destPort> of call c: the caller's host, and the caller's port
\* or 22.
Target(c) ==
    call[c].opts.fields["host"] \o <<":">>
        \o NumberToString(IF "port" \in DOMAIN call[c].opts.fields
                          THEN call[c].opts.fields["port"] ELSE 22)

\* Both proxy credentials of call c are given: a non-empty string each.
BothCredentials(c) ==
    /\ call[c].opts.proxy.username.defined /\ Len(call[c].opts.proxy.username.val) > 0
    /\ call[c].opts.proxy.password.defined /\ Len(call[c].opts.proxy.password.val) > 0

\* user:pass of call c in base64.
BasicToken(c) ==
    ToBase64(BufferFrom(call[c].opts.proxy.username.val \o <<":">>
                            \o call[c].opts.proxy.password.val))

\* The request of section 8, P2: destination example.org:22, credentials
\* user and pass.
ExampleRequest ==
    <<"CONNECT ", "e", "x", "a", "m", "p", "l", "e", ".", "o", "r", "g", ":", "2", "2",
      " HTTP/1.1", CR, LF,
      "Host: ", "e", "x", "a", "m", "p", "l", "e", ".", "o", "r", "g", ":", "2", "2",
      CR, LF,
      "Proxy-Authorization: Basic ",
      "d", "X", "N", "l", "c", "j", "p", "w", "Y", "X", "N", "z", CR, LF,
      "Connection: keep-alive", CR, LF,
      CR, LF>>

\* Call c is the connect of P2.
ExampleCall(c) ==
    /\ call[c].op = "connect"
    /\ call[c].opts.fields["host"] = ExampleOrg
    /\ "port" \in DOMAIN call[c].opts.fields => call[c].opts.fields["port"] = 22
    /\ call[c].opts.proxy.username = Str(User)
    /\ call[c].opts.proxy.password = Str(Pass)

(***************************************************************************)
(* C11: what a connect through an http/https proxy has written to the      *)
(* proxy socket, from the moment the transport is connected on, is one     *)
(* text: the request line CONNECT <destHost>:<destPort> HTTP/1.1, the Host *)
(* header with the same target, the Proxy-Authorization header with the    *)
(* base64 of user:pass exactly when the proxy's username and password are  *)
(* both given (a non-empty string each), the Connection: keep-alive        *)
(* header and an empty line, each ended by CRLF; for example.org:22 with   *)
(* user and pass it is the text of P2.  Nothing is written on other paths. *)
(***************************************************************************)
C11_ConnectRequestFraming ==
    \A c \in DOMAIN call :
        /\ (call[c].op = "connect" /\ Logged(c, "write") # {}) =>
              /\ call[c].path = "http"
              /\ call[c].written =
                    << Line(<<"CONNECT ">> \o Target(c) \o <<" HTTP/1.1">>)
                       \o Line(<<"Host: ">> \o Target(c))
                       \o (IF BothCredentials(c)
                           THEN Line(<<"Proxy-Authorization: Basic ">> \o BasicToken(c))
                           ELSE <<>>)
                       \o Line(<<"Connection: keep-alive">>)
                       \o Line(<<>>) >>
              /\ ExampleCall(c) => call[c].written = <<ExampleRequest>>
        /\ Logged(c, "write") = {} => call[c].written = <<>>

\* The request of P2 was written and the proxy's answer read.
C11_Witness ==
    \E c \in DOMAIN call :
        /\ ExampleCall(c)
        /\ call[c].written = <<ExampleRequest>>
        /\ HeaderRead(c)

\* Call c is a connect whose options have no proxy or a disabled one.
NoProxyCall(c) ==
    /\ call[c].op = "connect"
    /\ ~(call[c].opts.proxy.present /\ call[c].opts.proxy.enabled)

\* The payload of call c is the caller's options: the same keys with the
\* same values, host, port and proxy included, and no sock of the client's.
PayloadIsOptions(c) ==
    /\ call[c].payload.direct
    /\ call[c].payload.sock = 0
    /\ call[c].payload.fields = call[c].opts.fields
    /\ call[c].payload.proxy = call[c].opts.proxy

(***************************************************************************)
(* C12: a connect whose options have no proxy, or a proxy with enabled     *)
(* false, hands the caller's options unchanged to the session layer's      *)
(* connect, opens no transport and calls no SOCKS library, and leaves the  *)
(* slot as it was before the call.                                         *)
(***************************************************************************)
C12_PassthroughFrame ==
    \A c \in DOMAIN call :
        NoProxyCall(c) =>
            /\ Logged(c, "client.connect") # {}
            /\ PayloadIsOptions(c)
            /\ ~OpenedSomething(c)
            /\ Logged(c, "slot") = {}
            /\ proxySocket = call[c].pre.slot

\* C12 without its last part: the payload and the transports only.
C12_PayloadAndTransports ==
    \A c \in DOMAIN call :
        NoProxyCall(c) =>
            /\ Logged(c, "client.connect") # {}
            /\ PayloadIsOptions(c)
            /\ ~OpenedSomething(c)
            /\ Logged(c, "slot") = {}
            /\ call[c].result # "rejected" => proxySocket = call[c].pre.slot

\* Call c is a connect on a proxy path that has invoked the session layer's
\* connect.
TunnelledCall(c) ==
    /\ call[c].op = "connect"
    /\ call[c].path \in ProxyPaths
    /\ Logged(c, "client.connect") # {}

(***************************************************************************)
(* C13: on every proxy path the payload handed to the session layer's      *)
(* connect is an object of the client's own whose sock is the tunnel       *)
(* socket of this call; it has no host, no port and no proxy; and every    *)
(* field the caller supplied other than host, port, proxy and sock is in   *)
(* it with the caller's value, and nothing else is.                        *)
(***************************************************************************)
C13_MergedConnectOptions ==
    \A c \in DOMAIN call :
        TunnelledCall(c) =>
            /\ ~call[c].payload.direct
            /\ call[c].payload.sock = call[c].sock
            /\ call[c].payload.sock \in DOMAIN sockets
            /\ sockets[call[c].payload.sock].tunnel
            /\ \A i \in Logged(c, "client.connect") :
                  call[c].log[i][2] = call[c].payload.sock
            /\ "proxy" \notin DOMAIN call[c].payload
            /\ "host" \notin DOMAIN call[c].payload.fields
            /\ "port" \notin DOMAIN call[c].payload.fields
            /\ \A k \in DOMAIN call[c].opts.fields \ {"host", "port", "sock"} :
                  /\ k \in DOMAIN call[c].payload.fields
                  /\ call[c].payload.fields[k] = call[c].opts.fields[k]
            /\ DOMAIN call[c].payload.fields \subseteq DOMAIN call[c].opts.fields

\* Payloads were built from options with key material and a key outside the
\* authKeys list, and from options with a sock of the caller's own.
C13_Witness ==
    \E c \in DOMAIN call :
        /\ TunnelledCall(c)
        /\ call[c].path = "socksTls"
        /\ {"host", "port", "sock", "debug", "password"} \subseteq DOMAIN call[c].opts.fields
        /\ DOMAIN call[c].payload.fields = {"debug", "password"}

\* Call c is a connect with an enabled descriptor of exactly the type t.
TypedCall(c, t) == EnabledProxy(c) /\ call[c].opts.proxy.type = t

\* What call c did as the HTTP CONNECT builder does: a plain transport
\* opened, a request written, header bytes read.
HttpBuilderEvents(c) ==
    Logged(c, "net.connect") \cup Logged(c, "connect") \cup Logged(c, "write")
        \cup Logged(c, "close") \cup Logged(c, "error")

\* Call c ran the HTTP CONNECT builder and no other: one transport opened,
\* by tls.connect exactly when tls is asked, no call of the SOCKS library.
OnlyHttpBuilder(c, tls) ==
    /\ call[c].path = "http"
    /\ Cardinality(Logged(c, "net.connect")) = (IF tls THEN 0 ELSE 1)
    /\ Cardinality(Logged(c, "tls.connect")) = (IF tls THEN 1 ELSE 0)
    /\ Logged(c, "socks.createConnection") = {}
    /\ call[c].socksOpts = NoSocksOpts

\* Call c ran the SOCKS builder and no other: at most one call of the SOCKS
\* library, with the version asked, and no CONNECT request.
OnlySocksBuilder(c, version) ==
    /\ call[c].path \in {"socks", "socksTls"}
    /\ HttpBuilderEvents(c) = {}
    /\ call[c].written = <<>>
    /\ Cardinality(Logged(c, "socks.createConnection")) <= 1
    /\ call[c].path = "socks" => Logged(c, "socks.createConnection") # {}
    /\ Logged(c, "socks.createConnection") # {} => call[c].socksOpts.type = version
    /\ Logged(c, "socks.createConnection") = {} => call[c].socksOpts = NoSocksOpts

(***************************************************************************)
(* C14: a connect with an enabled descriptor of type http, https, socks4   *)
(* or socks5 runs exactly the builder of that type: http and https the     *)
(* HTTP CONNECT builder (over a plain and a TLS transport) and never the   *)
(* SOCKS library; socks4 and socks5 the SOCKS builder, with version 4 and  *)
(* 5, and never a CONNECT request.                                         *)
(***************************************************************************)
C14_DispatchCorrectness ==
    \A c \in DOMAIN call :
        /\ TypedCall(c, T_http) => OnlyHttpBuilder(c, FALSE)
        /\ TypedCall(c, T_https) => OnlyHttpBuilder(c, TRUE)
        /\ TypedCall(c, T_socks4) => OnlySocksBuilder(c, 4)
        /\ TypedCall(c, T_socks5) => OnlySocksBuilder(c, 5)

\* A socks4 descriptor with secure set got a version 4 tunnel over TLS.
C14_Witness ==
    \E c \in DOMAIN call :
        /\ TypedCall(c, T_socks4)
        /\ call[c].path = "socksTls"
        /\ call[c].socksOpts.type = 4
        /\ call[c].pc = "awaitSession"

\* Event ev on socket id is in the log of call c before position i.
Before(c, i, ev, id) == \E j \in 1..(i - 1) : call[c].log[j] = <<ev, id>>

(***************************************************************************)
(* C15: in every connect, the CONNECT request is written to a socket only  *)
(* after that socket signalled connect (type http) or secureConnect (type  *)
(* https); and the session layer's connect is invoked on a proxy path only *)
(* after the tunnel is confirmed: on the HTTP path after the request was   *)
(* written and a header block with a 200 status line was read, on the      *)
(* SOCKS paths after the SOCKS library returned the socket.                *)
(***************************************************************************)
C15_RequestAndSessionOrdering ==
    \A c \in DOMAIN call :
        call[c].op = "connect" =>
            /\ \A i \in Logged(c, "write") :
                  /\ call[c].log[i][2] # 0
                  /\ Before(c, i, IF ToLowerCase(call[c].opts.proxy.type) = T_https
                                  THEN "secureConnect" ELSE "connect",
                            call[c].log[i][2])
            /\ \A i \in Logged(c, "client.connect") :
                  /\ call[c].path = "http" =>
                        /\ \E w \in Logged(c, "write") :
                              /\ w < i
                              /\ Before(c, i, "headers", call[c].log[w][2])
                              /\ call[c].log[i][2] = call[c].log[w][2]
                        /\ IsStatus200(FirstLine(call[c].headerBuf))
                  /\ call[c].path \in {"socks", "socksTls"} =>
                        /\ call[c].log[i][2] # 0
                        /\ Before(c, i, "socks.socket", call[c].log[i][2])
            /\ Logged(c, "client.connect") # {} => call[c].path # "unsupported"

\* An https proxy's tunnel was handed to the session layer, and its request
\* had been written after secureConnect.
C15_Witness ==
    \E c \in DOMAIN call :
        /\ call[c].op = "connect"
        /\ call[c].opts.proxy.type = T_https
        /\ Logged(c, "write") # {}
        /\ Logged(c, "client.connect") # {}
        /\ call[c].result = "resolved"

\* Call c is a connect through a SOCKS proxy with secure set.
SecureSocksCall(c) ==
    /\ EnabledProxy(c)
    /\ ToLowerCase(call[c].opts.proxy.type) \in {T_socks4, T_socks5}
    /\ call[c].opts.proxy.secure

(***************************************************************************)
(* C16: on the TLS-wrapped SOCKS path the SOCKS library is invoked only    *)
(* after the TLS socket this call opened to the proxy signalled            *)
(* secureConnect, and it is given that socket as existing_socket.          *)
(***************************************************************************)
C16_TlsBeforeSocks ==
    \A c \in DOMAIN call :
        SecureSocksCall(c) =>
            /\ Logged(c, "tls.connect") # {}
            /\ \A i \in Logged(c, "socks.createConnection") :
                  /\ call[c].log[i][2] # 0
                  /\ Before(c, i, "tls.connect", call[c].log[i][2])
                  /\ Before(c, i, "secureConnect", call[c].log[i][2])
                  /\ call[c].socksOpts.existing_socket = call[c].log[i][2]
            /\ Logged(c, "socks.createConnection") = {} => call[c].socksOpts = NoSocksOpts

\* A socks5 tunnel over TLS was handed to the session layer.
C16_Witness ==
    \E c \in DOMAIN call :
        /\ SecureSocksCall(c)
        /\ call[c].opts.proxy.type = T_socks5
        /\ Logged(c, "socks.createConnection") # {}
        /\ call[c].socksOpts.existing_socket # 0
        /\ call[c].pc = "awaitSession"

DisconnectCompletes(c) ==
    call[c].op = "disconnect" /\ call[c].pc = "awaitEnd" /\ call'[c].pc = "idle"

FailureEvents ==
    {"once.rejected", "error", "close", "socks.rejected", "socks.nosocket",
     "session.rejected"}

\* The CONNECT response of call c was read and its status line is no 200.
Refused(c) ==
    Logged(c, "headers") # {} /\ ~IsStatus200(StatusLineOf(call[c].sent))

\* A stage of the connect in slot c has failed.
StageFailed(c) ==
    \/ \E ev \in FailureEvents : Logged(c, ev) # {}
    \/ Refused(c)
    \/ EnabledProxy(c) /\ ToLowerCase(call[c].opts.proxy.type) \notin SupportedTypes

\* The message of the error that made the connect in slot c fail: the
\* collaborator's own, or the client's for a refused CONNECT, a missing
\* socket and an unsupported type.
RootCause(c) ==
    CASE Logged(c, "session.rejected") # {} -> SessionErrMsg
      [] Logged(c, "socks.rejected") # {} -> SocksErrMsg
      [] Logged(c, "socks.nosocket") # {} ->
            IF call[c].opts.proxy.secure
            THEN <<"SFTPClient: socks.createConnection did not return socket (TLS path)">>
            ELSE <<"SFTPClient: socks.createConnection did not return socket">>
      [] Logged(c, "once.rejected") # {} -> TransportErrMsg
      [] Logged(c, "error") # {} -> SocketErrMsg
      [] Logged(c, "close") # {} -> <<"Proxy socket closed before CONNECT response">>
      [] Refused(c) ->
            <<"SFTPClient: HTTP CONNECT failed via proxy ", ProxyHost, ":", ProxyPort,
              " -> ">> \o StatusLineOf(call[c].sent)
      [] OTHER ->
            <<"SFTPClient: Unsupported proxy.type '">> \o call[c].opts.proxy.type
                \o <<"'. Supported: socks5, socks4, http, https.">>

\* The call in slot c is a disconnect that has completed.
DisconnectDone(c) == call[c].op = "disconnect" /\ call[c].pc = "idle"

\* destroy() was invoked in the cleanup of call c and the slot still holds
\* the socket: destroy() raised.
CleanupRaised(c) ==
    \E i \in Logged(c, "destroy") : proxySocket = call[c].log[i][2]

(***************************************************************************)
(* C19: with sockets whose destroy() may raise, a completed disconnect has *)
(* resolved exactly when the session layer's end resolved, and has         *)
(* rejected exactly when end rejected, with 'SFTPClient: Disconnect        *)
(* failed: ' and end's message; and a rejected connect has rejected with   *)
(* 'SFTPClient: Connection failed: ' and the message of the stage that     *)
(* failed.  An error raised by destroy() in either cleanup is no part of   *)
(* the outcome.                                                            *)
(***************************************************************************)
C19_CleanupErrorsSwallowed ==
    \A c \in DOMAIN call :
        /\ DisconnectDone(c) =>
              /\ call[c].result = "resolved" <=> Logged(c, "end.resolved") # {}
              /\ call[c].result = "rejected" <=> Logged(c, "end.rejected") # {}
              /\ call[c].result = "resolved" => call[c].message = <<>>
              /\ call[c].result = "rejected" =>
                    call[c].message = <<"SFTPClient: Disconnect failed: ">> \o EndErrMsg
        /\ ConnectRejected(c) =>
              /\ StageFailed(c)
              /\ call[c].message = <<"SFTPClient: Connection failed: ">> \o RootCause(c)
        /\ (call[c].op = "connect" /\ call[c].result = "resolved") => ~StageFailed(c)

\* destroy() raised in the finally block of a disconnect whose end had
\* rejected.
C19_Witness ==
    \E c \in DOMAIN call :
        /\ DisconnectDone(c)
        /\ CleanupRaised(c)
        /\ Logged(c, "end.rejected") # {}
        /\ call[c].result = "rejected"

(***************************************************************************)
(* C20: a connect of which a stage has failed (an unsupported type, the    *)
(* transport to the proxy, a CONNECT response cut short or refused, the    *)
(* SOCKS negotiation, the session layer's connect with or without a proxy) *)
(* has rejected, once, with 'SFTPClient: Connection failed: ' followed by  *)
(* the message of the failure; it has not resolved, and its message is not *)
(* the failure's own.  A connect rejects for no other reason.              *)
(***************************************************************************)
C20_FailuresWrapped ==
    \A c \in DOMAIN call :
        call[c].op = "connect" =>
            /\ StageFailed(c) =>
                  /\ ConnectRejected(c)
                  /\ call[c].message[1] = "SFTPClient: Connection failed: "
                  /\ Tail(call[c].message) = RootCause(c)
                  /\ call[c].message # RootCause(c)
                  /\ Cardinality({i \in DOMAIN call[c].log :
                                     call[c].log[i][1] \in FailureEvents}) <= 1
            /\ call[c].result = "rejected" => StageFailed(c)
            /\ call[c].result = "resolved" => ~StageFailed(c)

\* A connect through an HTTP proxy rejected because the proxy refused the
\* CONNECT request.
C20_Witness ==
    \E c \in DOMAIN call :
        /\ ConnectRejected(c)
        /\ Refused(c)
        /\ call[c].sent = H11 \o NO407 \o CRLF \o CRLF
        /\ Len(call[c].message) > 6

\* The errors connect raises itself, by the stage that failed.
ClientStages == {"unsupported", "refused", "closed", "nosocket"}

\* The stage at which the client itself raised the error of call c, or
\* "other" when a collaborator raised it or nothing failed.
ClientStage(c) ==
    CASE Logged(c, "session.rejected") # {} -> "other"
      [] Logged(c, "socks.nosocket") # {} -> "nosocket"
      [] Logged(c, "close") # {} -> "closed"
      [] Refused(c) -> "refused"
      [] EnabledProxy(c) /\ ToLowerCase(call[c].opts.proxy.type) \notin SupportedTypes
            -> "unsupported"
      [] OTHER -> "other"

\* The options with the proxy's username and password taken out.
WithoutCredentials(opt) ==
    [opt EXCEPT !.proxy.username = Undefined, !.proxy.password = Undefined]

\* The message of the client's own error at a stage, from options without
\* credentials, the proxy's address and the proxy's status line.
ClientMessage(opt, stage, statusLine) ==
    CASE stage = "unsupported" ->
            <<"SFTPClient: Unsupported proxy.type '">> \o opt.proxy.type
                \o <<"'. Supported: socks5, socks4, http, https.">>
      [] stage = "refused" ->
            <<"SFTPClient: HTTP CONNECT failed via proxy ", ProxyHost, ":", ProxyPort,
              " -> ">> \o statusLine
      [] stage = "closed" -> <<"Proxy socket closed before CONNECT response">>
      [] stage = "nosocket" ->
            IF opt.proxy.secure
            THEN <<"SFTPClient: socks.createConnection did not return socket (TLS path)">>
            ELSE <<"SFTPClient: socks.createConnection did not return socket">>

\* The proxy's username, password or their Basic token occurs in msg.
LeaksCredentials(c, msg) ==
    \/ Truthy(call[c].opts.proxy.username) /\ Contains(msg, call[c].opts.proxy.username.val)
    \/ Truthy(call[c].opts.proxy.password) /\ Contains(msg, call[c].opts.proxy.password.val)
    \/ BothCredentials(c) /\ Contains(msg, BasicToken(c))

(***************************************************************************)
(* C21: the message of an error connect raises itself (unsupported type,   *)
(* CONNECT refused, proxy closed before the response, no socket returned)  *)
(* is the same whatever the proxy's username and password are: it is the   *)
(* wrapping prefix and a text computed from the options without the        *)
(* credentials, the stage that failed, the proxy's address and the proxy's *)
(* status line, and neither credential nor their Basic token occurs in it. *)
(***************************************************************************)
C21_NoCredentialLeak ==
    \A c \in DOMAIN call :
        (ConnectRejected(c) /\ ClientStage(c) \in ClientStages) =>
            /\ call[c].message =
                  <<"SFTPClient: Connection failed: ">>
                      \o ClientMessage(WithoutCredentials(call[c].opts), ClientStage(c),
                                       StatusLineOf(call[c].sent))
            /\ ~LeaksCredentials(c, call[c].message)

\* A proxy given a username and a password refused the CONNECT request.
C21_Witness ==
    \E c \in DOMAIN call :
        /\ ConnectRejected(c)
        /\ ClientStage(c) = "refused"
        /\ BothCredentials(c)
        /\ Contains(call[c].written[1], BasicToken(c))

\* Call c goes to its proxy over TLS: type https, or a SOCKS type with
\* secure set.
TlsCall(c) ==
    /\ EnabledProxy(c)
    /\ \/ ToLowerCase(call[c].opts.proxy.type) = T_https
       \/ SecureSocksCall(c)

\* The boolean value of what the caller gave as secureRejectUnauthorized.
BooleanValue(v) == v \in {"true", "'no'", "1"}

(***************************************************************************)
(* C22: on every TLS hop to the proxy (type https, and SOCKS with secure   *)
(* set) the socket is created by tls.connect with rejectUnauthorized false *)
(* when the descriptor has no secureRejectUnauthorized, and with the       *)
(* boolean value of secureRejectUnauthorized when it has one; a call that  *)
(* makes no TLS hop passes no such option.                                 *)
(***************************************************************************)
C22_PermissiveByDefault ==
    \A c \in DOMAIN call :
        /\ TlsCall(c) =>
              /\ Cardinality(Logged(c, "tls.connect")) = 1
              /\ "tlsOpts" \in DOMAIN call[c]
              /\ call[c].tlsOpts.rejectUnauthorized =
                    IF "secureRejectUnauthorized" \in DOMAIN call[c].opts.proxy
                    THEN BooleanValue(call[c].opts.proxy["secureRejectUnauthorized"])
                    ELSE FALSE
        /\ ~TlsCall(c) => Logged(c, "tls.connect") = {} /\ "tlsOpts" \notin DOMAIN call[c]

\* A TLS-wrapped SOCKS tunnel was established with validation left off by
\* default.
C22_Witness ==
    \E c \in DOMAIN call :
        /\ SecureSocksCall(c)
        /\ "secureRejectUnauthorized" \notin DOMAIN call[c].opts.proxy
        /\ call[c].pc = "awaitSession"
        /\ ~call[c].tlsOpts.rejectUnauthorized

\* A facade call of connect starts in this step.
FacadeConnectStarts ==
    facade.pc = "idle" /\ facade' # facade /\ facade'.op = "connect"

\* The facade call in flight invokes the protocol client in this step.
FacadeInvokesClient ==
    facade.pc = "awaitClient" /\ ~facade.invoked /\ facade'.invoked

(***************************************************************************)
(* C23: a connect on the facade of an ftp or ftps client with options that *)
(* hold a proxy descriptor, enabled or not, rejects at once with           *)
(* 'SecureFileTransferClient: Connect failed: ' and the text 'Proxy is     *)
(* only supported for SFTP...', and the FTP client is not invoked (its     *)
(* call record stays as it is); on the facade of an sftp client the        *)
(* options go to SFTPClient.connect as they are, and on an ftp or ftps     *)
(* client without a descriptor to FTPClient.connect.                       *)
(***************************************************************************)
C23_ProxyIsSftpOnly ==
    [][/\ FacadeConnectStarts =>
             IF facade.protocol \in {"ftp", "ftps"} /\ facade'.args.proxy.present
             THEN /\ facade'.pc = "idle"
                  /\ facade'.result = "rejected"
                  /\ ~facade'.invoked
                  /\ facade'.message =
                        << "SecureFileTransferClient: Connect failed: ",
                           "Proxy is only supported for SFTP. FTP/FTPS proxy is not supported by this package." >>
                  /\ call' = call
             ELSE facade'.pc = "awaitClient" /\ call' = call
       /\ FacadeInvokesClient /\ facade.op = "connect" =>
             /\ facade.protocol = "sftp" \/ ~facade.args.proxy.present
             /\ call'[TheCall].opts = facade.args
             /\ call'[TheCall].op =
                   (IF facade.protocol = "sftp" THEN "connect" ELSE "ftp.connect")
             /\ facade.protocol = "sftp" /\ ~EnabledProxy(TheCall)' =>
                   /\ call'[TheCall].payload.direct
                   /\ call'[TheCall].payload.proxy = facade.args.proxy
                   /\ call'[TheCall].payload.fields = facade.args.fields]_vars

\* The facade of an ftps client whose FTP client had connected has refused
\* a connect with a descriptor that has enabled false.
C23_Witness ==
    /\ facade.protocol = "ftps"
    /\ facade.op = "connect"
    /\ facade.result = "rejected"
    /\ facade.args.proxy.present
    /\ ~facade.args.proxy.enabled
    /\ call[TheCall].op = "ftp.connect"
    /\ call[TheCall].result = "resolved"

\* path is absolute and lies at or beneath root: the segments of root are the
\* first segments of path.
Beneath(root, path) ==
    /\ StartsWithSlash(path)
    /\ Len(Segments(path)) >= Len(Segments(root))
    /\ SubSeq(Segments(path), 1, Len(Segments(root))) = Segments(root)

(***************************************************************************)
(* C24: whatever the root path and whatever cd calls and file operations   *)
(* were made with whatever path arguments, the current directory and every *)
(* remote path handed to the session layer lie at or beneath the root      *)
(* path.                                                                   *)
(***************************************************************************)
C24_RootAnchoring ==
    /\ Beneath(basePath, currentDir)
    /\ \A c \in DOMAIN call :
          call[c].op \in FileOps =>
              \A i \in DOMAIN call[c].paths : Beneath(basePath, call[c].paths[i])

\* The directory a cd with the argument remoteDir leads to from the
\* directory dir under the root path root.
CdTarget(root, dir, remoteDir) ==
    IF StartsWithSlash(remoteDir)
    THEN PosixJoin(root, Tail(remoteDir))
    ELSE PosixJoin(dir, remoteDir)

FacadeFailed(op) ==
    CASE op = "connect" -> "SecureFileTransferClient: Connect failed: "
      [] op = "list" -> "SecureFileTransferClient: List failed: "
      [] op = "cd" -> "SecureFileTransferClient: cd failed: "
      [] op = "pwd" -> "SecureFileTransferClient: pwd failed: "
      [] op = "downloadFile" -> "SecureFileTransferClient: Download failed: "
      [] op = "uploadFile" -> "SecureFileTransferClient: Upload failed: "
      [] op = "deleteFile" -> "SecureFileTransferClient: Delete failed: "
      [] op = "renameFile" -> "SecureFileTransferClient: Rename failed: "
      [] op = "disconnect" -> "SecureFileTransferClient: Disconnect failed: "

\* The facade call of op has returned or thrown after the protocol client's
\* operation did.
FacadeDone(op) == facade.pc = "idle" /\ facade.invoked /\ facade.op = op

(***************************************************************************)
(* C26: for each of the nine operations of the facade, once the protocol   *)
(* client's operation has rejected the facade's call has rejected with the *)
(* operation's prefix followed by the client's message, and once it has    *)
(* resolved the facade's call has resolved with the value the client       *)
(* returned; while the client's operation is pending the facade's call is  *)
(* pending.                                                                *)
(***************************************************************************)
C26_FacadeWraps ==
    \A op \in {"connect", "list", "cd", "pwd", "downloadFile", "uploadFile",
                "deleteFile", "renameFile", "disconnect"} :
        /\ FacadeDone(op) =>
              LET done == call[TheCall]
              IN  /\ done.pc = "idle"
                  /\ done.op \in {op, FtpName(op)}
                  /\ done.result \in {"resolved", "rejected"}
                  /\ done.result = "rejected" =>
                        /\ facade.result = "rejected"
                        /\ facade.message = <<FacadeFailed(op)>> \o done.message
                        /\ Len(done.message) >= 2
                  /\ done.result = "resolved" =>
                        /\ facade.result = "resolved"
                        /\ facade.message = <<>>
                        /\ facade.value = (IF "value" \in DOMAIN done THEN done.value
                                                                     ELSE <<>>)
        /\ facade.pc = "awaitClient" /\ facade.op = op =>
              /\ facade.result = "none"
              /\ facade.invoked => call[TheCall].pc # "idle"

\* The facade of an ftp client has rejected a renameFile with the message
\* of FTPClient behind its own prefix.
C26_Witness ==
    /\ FacadeDone("renameFile")
    /\ facade.protocol = "ftp"
    /\ facade.message = << "SecureFileTransferClient: Rename failed: ",
                           "FTPClient: Rename failed: ", "530 Login incorrect" >>

\* The events call c logs in this step.
NewEvents(c) ==
    { call'[c].log[i][1] : i \in (Len(call[c].log) + 1)..Len(call'[c].log) }

\* The bytes buf end with the terminator of a header block.
EndsWithTerminator(buf) ==
    Len(buf) >= 4 /\ SubSeq(buf, Len(buf) - 3, Len(buf)) = headerEnd

\* Call c waits for the header block of the proxy's answer.
ReadingHeaders(c) == call[c].pc = "readHeaders"

(***************************************************************************)
(* C27: while connect reads the header block, the only steps are events of *)
(* the proxy socket: data, an error or a close.  It stops reading only     *)
(* when the accumulated data holds the terminator, on an error or on a     *)
(* close, and it reads as long as none of them has happened: there is no   *)
(* step of the client's own, such as a timeout.  If the socket eventually  *)
(* emits one of the events whenever the reader listens (and the session    *)
(* layer's connect settles), a connect that reads headers eventually       *)
(* resolves or rejects.                                                    *)
(***************************************************************************)
C27_HeaderReadEndsOnEvent ==
    /\ [](\A c \in SeqCalls :
            ReadingHeaders(c) =>
                call[c].listening /\ IndexOf(call[c].response, headerEnd) = -1)
    /\ [][\A c \in SeqCalls :
             ReadingHeaders(c) /\ call'[c] # call[c] =>
                 /\ \/ Len(call'[c].wire) < Len(call[c].wire)
                    \/ "error" \in NewEvents(c)
                    \/ "close" \in NewEvents(c)
                 /\ ~ReadingHeaders(c)' =>
                       \/ /\ "headers" \in NewEvents(c)
                          /\ EndsWithTerminator(call'[c].headerBuf)
                       \/ "error" \in NewEvents(c) /\ call'[c].result = "rejected"
                       \/ "close" \in NewEvents(c) /\ call'[c].result = "rejected"]_vars
    /\ \A c \in SeqCalls :
          ReadingHeaders(c) ~>
              (call[c].pc = "idle" /\ call[c].result \in {"resolved", "rejected"})

\* A connect has rejected on the close of a proxy that had sent part of a
\* header block and no terminator.
C27_Witness ==
    \E c \in DOMAIN call :
        /\ call[c].path = "http"
        /\ call[c].result = "rejected"
        /\ call[c].message = <<"SFTPClient: Connection failed: ",
                               "Proxy socket closed before CONNECT response">>
        /\ call[c].partial
        /\ Logged(c, "close") # {}

\* The lifecycle state of the client while call c, a connect on a proxy
\* path, is its last call.  TunnelEstablished is the moment the slot is
\* written: the log entry "slot".
Lifecycle(c) ==
    CASE call[c].pc \in {"awaitTransport", "readHeaders", "awaitSocks"} -> "Tunneling"
      [] call[c].pc = "awaitSession" -> "SessionConnecting"
      [] call[c].pc = "idle" /\ call[c].result = "resolved" -> "Connected"
      [] OTHER -> "Idle"

\* Call c went through Tunneling, TunnelEstablished and SessionConnecting in
\* that order, with one socket.
TunnelThenSession(c) ==
    \E i, j, k \in DOMAIN call[c].log :
        /\ i < j /\ j < k
        /\ call[c].log[i][1] \in {"net.connect", "tls.connect", "socks.createConnection"}
        /\ call[c].log[j] = <<"slot", call[c].sock>>
        /\ call[c].log[k] = <<"client.connect", call[c].sock>>
        /\ \A n \in DOMAIN call[c].log :
              call[c].log[n][1] = "client.connect" => n = k

\* The parts of C28 other than the cleanup of a socket opened in Tunneling.
C28_OrderAndSlot ==
    \A c \in DOMAIN call :
        call[c].op = "connect" /\ call[c].path \in ProxyPaths =>
            /\ Lifecycle(c) \in {"SessionConnecting", "Connected"} => TunnelThenSession(c)
            /\ Lifecycle(c) = "Connected" => proxySocket = call[c].sock
            /\ ConnectRejected(c) =>
                  /\ proxySocket = 0
                  /\ NoCallInFlight
                  /\ \A i \in Logged(c, "slot") : call[c].log[i][2] \notin Alive(sockets)

(***************************************************************************)
(* C28: a connect on a proxy path reaches Connected only through Tunneling *)
(* (a transport is opened), TunnelEstablished (the slot is written) and    *)
(* SessionConnecting (the session layer's connect is invoked), in that     *)
(* order; and after a failure in any of them the client is Idle again: the *)
(* slot is empty, no call is in flight, and the client has destroyed every *)
(* socket of the attempt that was connected to the proxy or stored in the  *)
(* slot.                                                                   *)
(***************************************************************************)
C28_Lifecycle ==
    /\ C28_OrderAndSlot
    /\ \A c \in DOMAIN call :
          call[c].op = "connect" /\ call[c].path \in ProxyPaths /\ ConnectRejected(c) =>
              \A id \in ConnectedTransports(c) : id \notin Alive(sockets)

\* The header reader of call c, a connect through an HTTP proxy, has been
\* started: the request is written and the listeners were attached.
ReaderStarted(c) ==
    call[c].op = "connect" /\ call[c].path = "http" /\ Logged(c, "write") # {}

\* The calls of resolve and reject by the reader of call c.
Settlements(c) == Logged(c, "headers") \cup Logged(c, "error") \cup Logged(c, "close")

\* Step of the same connect attempt of call c: its log is extended.
SameAttempt(c) ==
    /\ Len(call'[c].log) >= Len(call[c].log)
    /\ SubSeq(call'[c].log, 1, Len(call[c].log)) = call[c].log

(***************************************************************************)
(* C29: the header reader of a connect settles exactly once: while connect *)
(* reads headers the three listeners are attached and nothing has settled  *)
(* it; afterwards exactly one of terminator, error and close has settled   *)
(* it, that one decides the result, and the listeners are removed; from    *)
(* then on no event of the socket changes the header block it resolved     *)
(* with or the outcome of a connect that has rejected, settles it again or *)
(* makes the accumulator grow.                                             *)
(***************************************************************************)
C29_ReaderSettlesOnce ==
    /\ [](\A c \in SeqCalls :
            ReaderStarted(c) =>
                IF call[c].pc = "readHeaders"
                THEN call[c].listening /\ Settlements(c) = {}
                ELSE /\ ~call[c].listening
                     /\ Cardinality(Settlements(c)) = 1
                     /\ Logged(c, "headers") # {} <=> call[c].headerBuf # <<>>
                     /\ Logged(c, "error") # {} =>
                           /\ ConnectRejected(c)
                           /\ call[c].message = <<ConnectionFailed>> \o SocketErrMsg
                     /\ Logged(c, "close") # {} =>
                           /\ ConnectRejected(c)
                           /\ call[c].message = <<ConnectionFailed>> \o ClosedMsg)
    /\ [][\A c \in SeqCalls :
             ReaderStarted(c) /\ call[c].pc # "readHeaders" /\ SameAttempt(c) =>
                 /\ call'[c].headerBuf = call[c].headerBuf
                 /\ Len(call'[c].response) <= Len(call[c].response)
                 /\ Settlements(c)' = Settlements(c)
                 /\ ConnectRejected(c) =>
                       call'[c].result = call[c].result /\ call'[c].message = call[c].message]_vars

\* After the reader resolved with a header block, and again after connect
\* had resolved, the socket emitted an event.
C29_Witness ==
    \E c \in DOMAIN call :
        /\ ReaderStarted(c)
        /\ call[c].result = "resolved"
        /\ Logged(c, "headers") # {}
        /\ sockets[call[c].sock].late = 2

\* The sockets call c created: the transports it opened and the socket the
\* SOCKS library returned to it.
CreatedBy(c) ==
    { call[c].log[i][2] :
        i \in Logged(c, "net.connect") \cup Logged(c, "tls.connect")
                 \cup Logged(c, "socks.socket") }

(***************************************************************************)
(* C30: when two connect calls on one instance overlap, a call destroys    *)
(* only sockets it created itself, and once both calls have completed      *)
(* every tunnel socket either call created is the one in the slot or has   *)
(* been destroyed.                                                         *)
(***************************************************************************)
C30_SlotSingleWriter ==
    /\ \A c \in DOMAIN call :
          \A i \in Logged(c, "destroy") : call[c].log[i][2] \in CreatedBy(c)
    /\ (\A c \in DOMAIN call : call[c].op = "connect" /\ call[c].pc = "idle") =>
          \A id \in DOMAIN sockets :
              sockets[id].tunnel => id = proxySocket \/ id \notin Alive(sockets)

\* The descriptor asks for TLS on the hop to the proxy: type https, or a
\* SOCKS type with secure set (types compared as connect compares them).
AsksTls(proxy) ==
    LET proxyType == ToLowerCase(proxy.type)
    IN  proxyType = T_https \/ (proxyType \in {T_socks4, T_socks5} /\ proxy.secure)

\* Call c opened a TLS socket to the proxy.
TlsHop(c) == Logged(c, "tls.connect") # {}

\* Call c opened a plain TCP connection to the proxy: with net.connect, or
\* by asking the SOCKS library to open its own connection.
PlainHop(c) ==
    \/ Logged(c, "net.connect") # {}
    \/ \E i \in Logged(c, "socks.createConnection") : call[c].log[i][2] = 0

(***************************************************************************)
(* C31: the hop to the proxy is TLS exactly when type is https, or type is *)
(* socks4/socks5 and secure is true; for type http the transport is plain  *)
(* TCP whatever the value of secure, and for type https it is TLS whatever *)
(* the value of secure.  A TLS hop waits for secureConnect, a plain one    *)
(* opened by connect itself for connect.                                   *)
(***************************************************************************)
C31_TlsHopExactly ==
    \A c \in DOMAIN call :
        (EnabledProxy(c) /\ ToLowerCase(call[c].opts.proxy.type) \in SupportedTypes)
            => /\ TlsHop(c) <=> AsksTls(call[c].opts.proxy)
               /\ PlainHop(c) <=> ~AsksTls(call[c].opts.proxy)
               /\ "tlsOpts" \in DOMAIN call[c] <=> AsksTls(call[c].opts.proxy)
               /\ Logged(c, "secureConnect") # {} => AsksTls(call[c].opts.proxy)
               /\ Logged(c, "connect") # {} => ~AsksTls(call[c].opts.proxy)
               /\ ToLowerCase(call[c].opts.proxy.type) = T_http
                     => Logged(c, "net.connect") # {} /\ ~TlsHop(c)
               /\ ToLowerCase(call[c].opts.proxy.type) = T_https
                     => TlsHop(c) /\ ~PlainHop(c)

\* An http descriptor with secure set wrote its CONNECT request on a plain
\* socket.
C31_Witness ==
    \E c \in DOMAIN call :
        /\ TypedCall(c, T_http)
        /\ call[c].opts.proxy.secure
        /\ Logged(c, "net.connect") # {}
        /\ Logged(c, "connect") # {}
        /\ call[c].written # <<>>

\* The caller's options of call c have a sock of their own.
CallerSock(c) == "sock" \in DOMAIN call[c].opts.fields

\* The socket call c stored in the slot before it invoked the session layer.
TunnelOf(c) == {call[c].log[i][2] : i \in Logged(c, "slot")}

(***************************************************************************)
(* C32: a caller-supplied sock never overrides the tunnel: on every proxy  *)
(* path the sock given to the session layer is the tunnel socket built by  *)
(* the client, even when the caller's options contain a sock entry; no     *)
(* other key is treated so: every other caller key except host, port and   *)
(* proxy is copied with the caller's value.  Without a proxy the caller's  *)
(* own object, sock included, is what the session layer gets.              *)
(***************************************************************************)
C32_TunnelSockWins ==
    \A c \in DOMAIN call :
        /\ (TunnelledCall(c) /\ CallerSock(c)) =>
              /\ TunnelOf(c) = {call[c].payload.sock}
              /\ call[c].payload.sock \in DOMAIN sockets
              /\ sockets[call[c].payload.sock].tunnel
              /\ "sock" \notin DOMAIN call[c].payload.fields
        /\ TunnelledCall(c) =>
              /\ call[c].payload.sock # 0
              /\ DOMAIN call[c].payload.fields
                    = DOMAIN call[c].opts.fields \ {"host", "port", "sock"}
              /\ \A k \in DOMAIN call[c].payload.fields :
                    call[c].payload.fields[k] = call[c].opts.fields[k]
        /\ (call[c].op = "connect" /\ call[c].path = "direct" /\ CallerSock(c)) =>
              /\ call[c].payload.direct
              /\ call[c].payload.fields = call[c].opts.fields

\* Options with a sock of the caller's own went through a TLS-wrapped SOCKS
\* tunnel and the session layer connected over the tunnel socket.
C32_Witness ==
    \E c \in DOMAIN call :
        /\ TunnelledCall(c)
        /\ CallerSock(c)
        /\ call[c].path = "socksTls"
        /\ call[c].payload.sock = proxySocket
        /\ call[c].payload.fields["debug"] = "fn"
        /\ call[c].result = "resolved"

\* The sockets on which the step invokes destroy().
DestroyedNow ==
    {id \in DOMAIN sockets : sockets'[id].destroyCalls > sockets[id].destroyCalls}

\* A step invokes destroy() on a socket at most once and only on a socket
\* never destroyed before; the socket of the slot leaves the slot in the same
\* step; a socket destroyed outside the slot is the one a CONNECT answer
\* other than 200 came on, and it was never the tunnel socket.
DestroysOnce ==
    \A id \in DestroyedNow :
        /\ sockets[id].destroyCalls = 0
        /\ sockets'[id].destroyCalls = 1
        /\ proxySocket' # id
        /\ id = proxySocket => proxySocket' = 0
        /\ id # proxySocket =>
              /\ ~sockets[id].tunnel /\ ~sockets'[id].tunnel
              /\ \E c \in DOMAIN call :
                    /\ call[c].pc = "readHeaders" /\ call[c].sock = id
                    /\ ConnectRejected(c)'
                    /\ Contains(call'[c].message,
                                <<"SFTPClient: HTTP CONNECT failed via proxy ">>)

(***************************************************************************)
(* C33: provided destroy does not raise, over any sequence of connect and  *)
(* disconnect calls destroy is invoked at most once on any given tunnel    *)
(* socket: the non-200 path destroys its socket without ever storing it in *)
(* the slot, and the failure cleanup of connect and the final cleanup of   *)
(* disconnect clear the slot right after destroying, so the slot never     *)
(* holds a destroyed socket for a later call to destroy again.             *)
(***************************************************************************)
C33_DestroyAtMostOnce ==
    /\ [](\A id \in DOMAIN sockets : sockets[id].destroyCalls <= 1)
    /\ [](proxySocket # 0 => sockets[proxySocket].destroyCalls = 0)
    /\ [][DestroysOnce]_vars

\* A disconnect has completed after the tunnel socket of an earlier connect
\* was destroyed and the slot cleared; a socket refused by the proxy was
\* destroyed as well.
C33_Witness ==
    /\ \E c \in DOMAIN call :
          /\ call[c].op = "disconnect" /\ call[c].pc = "idle"
          /\ call[c].pre.slot = 0
          /\ \E id \in DOMAIN sockets :
                /\ sockets[id].tunnel
                /\ sockets[id].destroyCalls = 1
                /\ id \notin call[c].pre.alive
    /\ \E id \in DOMAIN sockets : ~sockets[id].tunnel /\ sockets[id].destroyCalls = 1

\* The step runs a cleanup of call c that invokes destroy() on the socket of
\* the slot.
CleansSlot(c) ==
    proxySocket # 0 /\ "destroy" \in NewEvents(c)
        /\ call'[c].log[Len(call'[c].log)][2] = proxySocket

\* The call in slot c began with a socket in the slot on which destroy() had
\* been invoked already: an earlier cleanup's destroy() raised.
BeganWithKeptSocket(c) ==
    call[c].pre.slot # 0 /\ call[c].pre.slot \notin call[c].pre.alive

\* Call c invoked destroy() on the socket the slot held when it began.
DestroyedKeptSocket(c) ==
    \E i \in Logged(c, "destroy") : call[c].log[i][2] = call[c].pre.slot

(***************************************************************************)
(* C34, the slot after a cleanup: a cleanup that invokes destroy on the    *)
(* socket of the slot clears the slot when destroy returns and leaves the  *)
(* socket in the slot when destroy raises.                                 *)
(***************************************************************************)
C34_SlotKeptOnRaise ==
    [][\A c \in DOMAIN call :
          CleansSlot(c) =>
              /\ sockets'[proxySocket].destroyCalls = sockets[proxySocket].destroyCalls + 1
              /\ "destroy.raised" \in NewEvents(c) => proxySocket' = proxySocket
              /\ "destroy.raised" \notin NewEvents(c) => proxySocket' = 0]_vars

(***************************************************************************)
(* C34: the slot is cleared only when destroy returns normally; when the   *)
(* stored socket's destroy raises in the failure cleanup of connect or the *)
(* final cleanup of disconnect the slot still holds the socket, so the     *)
(* next disconnect or failed connect invokes destroy on it again.          *)
(***************************************************************************)
C34_NextCallDestroysAgain ==
    \A c \in DOMAIN call :
        ((DisconnectDone(c) \/ ConnectRejected(c)) /\ BeganWithKeptSocket(c))
            => DestroyedKeptSocket(c)

\* proxy.type of call c differs from the supported type t in the case of
\* letters at most.
VariantOf(c, t) == EnabledProxy(c) /\ ToLowerCase(call[c].opts.proxy.type) = t

\* Call c was refused as a connect with an unsupported proxy type.
ReportedUnsupported(c) ==
    \/ call[c].path = "unsupported"
    \/ Contains(call[c].message, <<"SFTPClient: Unsupported proxy.type '">>)

(***************************************************************************)
(* C35: proxy type matching is case-insensitive: for an enabled            *)
(* descriptor, any letter-case variant of http, https, socks4 or socks5    *)
(* selects the same builder and the same SOCKS version as the lower-case   *)
(* value, and is never reported as an unsupported type.                    *)
(***************************************************************************)
C35_TypeCaseInsensitive ==
    \A c \in DOMAIN call :
        /\ VariantOf(c, T_http) => OnlyHttpBuilder(c, FALSE) /\ ~ReportedUnsupported(c)
        /\ VariantOf(c, T_https) => OnlyHttpBuilder(c, TRUE) /\ ~ReportedUnsupported(c)
        /\ VariantOf(c, T_socks4) => OnlySocksBuilder(c, 4) /\ ~ReportedUnsupported(c)
        /\ VariantOf(c, T_socks5) => OnlySocksBuilder(c, 5) /\ ~ReportedUnsupported(c)
        /\ \A t \in {T_http, T_https, T_socks4, T_socks5} :
              VariantOf(c, t) =>
                  call[c].path =
                      (CASE t \in {T_http, T_https} -> "http"
                         [] OTHER -> IF call[c].opts.proxy.secure THEN "socksTls"
                                     ELSE "socks")

\* A connect with type 'hTTpS' went through a TLS socket and the CONNECT
\* builder to the session layer.
C35_Witness ==
    \E c \in DOMAIN call :
        /\ call[c].opts.proxy.type = <<"h", "T", "T", "p", "S">>
        /\ EnabledProxy(c)
        /\ Logged(c, "tls.connect") # {}
        /\ Logged(c, "write") # {}
        /\ call[c].pc = "idle" /\ call[c].result = "resolved"

\* What follows 'HTTP/' in the line up to the first whitespace.
VersionOf(line) ==
    LET ws == {i \in 6..Len(line) : line[i] \in Whitespace}
        end == IF ws = {} THEN Len(line) ELSE (CHOOSE i \in ws : \A j \in ws : i <= j) - 1
    IN  SubSeq(line, 6, end)

\* The version is one digit, a dot, one digit.
DigitDotDigit(version) ==
    Len(version) = 3 /\ version[1] \in Digits /\ version[2] = "." /\ version[3] \in Digits

\* The line ends with the code 200: no reason phrase, no trailing space.
EndsAfterCode(line) ==
    Len(line) >= 4 /\ SubSeq(line, Len(line) - 2, Len(line)) = <<"2", "0", "0">>
        /\ line[Len(line) - 3] \in Whitespace

\* connect in slot c has rejected as it does for a status other than 200:
\* the socket to the proxy was destroyed and never became the tunnel, the
\* session layer was not called, and the message carries the status line.
RefusedAsNon200(c) ==
    /\ ConnectRejected(c)
    /\ call[c].message =
          <<"SFTPClient: Connection failed: ",
            "SFTPClient: HTTP CONNECT failed via proxy ", ProxyHost, ":", ProxyPort,
            " -> ">> \o StatusLineOf(call[c].sent)
    /\ \E i \in Logged(c, "destroy") : call[c].log[i][2] = call[c].sock
    /\ sockets[call[c].sock].destroyCalls = 1
    /\ ~sockets[call[c].sock].tunnel
    /\ ~Accepted(c)

(***************************************************************************)
(* C36 (as stated): the CONNECT response is accepted only if its first     *)
(* line is 'HTTP/' + one digit + '.' + one digit, at least one whitespace  *)
(* character, '200', and at least one further whitespace character.        *)
(* Refuted by a status line that begins 'http/'.                           *)
(***************************************************************************)
C36_AcceptedOnlyIfHTTP ==
    \A c \in DOMAIN call :
        (HeaderRead(c) /\ Accepted(c)) =>
            /\ IsStatus200(StatusLineOf(call[c].sent))
            /\ SubSeq(StatusLineOf(call[c].sent), 1, 5) = <<"H", "T", "T", "P", "/">>

(***************************************************************************)
(* C36 (amended): the CONNECT response is accepted only if its first line  *)
(* is 'HTTP/' in any letter case + one digit + '.' + one digit, at least   *)
(* one whitespace character, '200', and at least one further whitespace    *)
(* character; a status line that ends directly after the code and a status *)
(* line whose version is not digit.digit are rejected exactly like a       *)
(* non-200 status, with the socket destroyed.                              *)
(***************************************************************************)
C36_StatusLineShape ==
    \A c \in DOMAIN call :
        HeaderRead(c) =>
            LET line == StatusLineOf(call[c].sent)
            IN  /\ Accepted(c) =>
                      /\ IsStatus200(line)
                      /\ ToLowerCase(SubSeq(line, 1, 5)) = <<"h", "t", "t", "p", "/">>
                      /\ DigitDotDigit(VersionOf(line))
                      /\ ~EndsAfterCode(line)
                /\ ~Accepted(c) => RefusedAsNon200(c)
                /\ EndsAfterCode(line) => RefusedAsNon200(c)
                /\ ~DigitDotDigit(VersionOf(line)) => RefusedAsNon200(c)

\* 'HTTP/1.1 200' with nothing after the code was read and refused.
C36_Witness ==
    \E c \in DOMAIN call :
        /\ HeaderRead(c)
        /\ StatusLineOf(call[c].sent) = H11 \o <<SP, "2", "0", "0">>
        /\ RefusedAsNon200(c)

\* The events of a call that are calls of the session layer.
SessionCalls(c) ==
    {i \in DOMAIN call[c].log :
        call[c].log[i][1] \in {"client.connect", "client.end", "client.list",
                               "client.get", "client.put", "client.delete",
                               "client.rename", "client.cwd"}}

\* Where the client is in its life when no call is in flight, by the call
\* before: never connected, connected, after a failed connect, after a
\* disconnect.
LifecycleStates(c) ==
    /\ call[c].pc = "idle"
    /\ \/ call[c].op = "none"
       \/ call[c].op = "connect" /\ call[c].result \in {"resolved", "rejected"}
       \/ call[c].op = "disconnect"
       \/ call[c].op \in {"cd", "pwd"}

\* The step is a call of cd or pwd.
LocalCall(c) == call'[c] # call[c] /\ call'[c].op \in {"cd", "pwd"}

FtpCdFailed(c) ==
    call[c].op = "ftp.cd" /\ call[c].pc = "idle" /\ call[c].result = "rejected"

\* The step begins an FTP operation whose arguments are remote paths.
FtpPathCallBegins(c) ==
    /\ call[c].pc = "idle" /\ call'[c].pc = "awaitFtp"
    /\ call'[c].op \in {"ftp.cd", "ftp.downloadFile", "ftp.uploadFile",
                        "ftp.deleteFile", "ftp.renameFile"}

(***************************************************************************)
(* C38: FTP cd is atomic with respect to the client's bookkeeping:         *)
(* FTPClient.cd updates the current directory only after the server        *)
(* accepted the directory change; if the server's cd fails, cd rejects     *)
(* with a wrapped 'cd failed' error and the current directory is the same  *)
(* as before the call, so later relative operations still resolve against  *)
(* the old directory.                                                      *)
(***************************************************************************)
C38_FtpCdAtomic ==
    /\ [](\A c \in DOMAIN call :
            call[c].op = "ftp.cd" =>
                /\ call[c].log = <<<<"ftp.cd()", 0>>>>
                /\ (call[c].pc = "awaitFtp" \/ FtpCdFailed(c)) =>
                      call[c].paths[1] = CdTarget(basePath, currentDir, call[c].args[1])
                /\ FtpCdFailed(c) =>
                      call[c].message = <<"FTPClient: cd failed: ">> \o FtpErrMsg
                /\ (call[c].pc = "idle" /\ call[c].result = "resolved") =>
                      currentDir = call[c].paths[1])
    /\ [][\A c \in DOMAIN call :
            /\ (call[c].op = "ftp.cd" /\ call[c].pc = "awaitFtp") =>
                  currentDir' = IF call'[c].result = "resolved"
                                THEN call[c].paths[1] ELSE currentDir
            /\ (call'[c].op = "ftp.cd" /\ call'[c].pc = "awaitFtp") =>
                  currentDir' = currentDir
            /\ (FtpCdFailed(c) /\ FtpPathCallBegins(c)) =>
                  /\ currentDir' = currentDir
                  /\ \A i \in DOMAIN call'[c].args :
                        ~StartsWithSlash(call'[c].args[i]) =>
                            call'[c].paths[i] = PosixJoin(currentDir, call'[c].args[i])]_vars

\* After a cd that the server accepted, a cd back to the root was refused
\* by the server: the facade reports it and the directory is the earlier one.
C38_Witness ==
    \E c \in DOMAIN call :
        /\ FtpCdFailed(c)
        /\ call[c].args = <<<<Slash>>>>
        /\ call[c].paths[1] = basePath
        /\ currentDir # basePath
        /\ facade.op = "cd" /\ facade.result = "rejected"
        /\ facade.message =
              <<"SecureFileTransferClient: cd failed: ", "FTPClient: cd failed: ">>
                  \o FtpErrMsg

====
